---- MODULE Spec2Model ----
(***************************************************************************)
(* Bring-up of the Intel HDA controller                                    *)
(* (system/udev/intel-hda/controller/intel-hda-controller-init.cpp).       *)
(*                                                                         *)
(* The thread that calls Init walks through InitInternal one callee at a   *)
(* time (pc).  The hardware, the IRQ worker thread and the framework       *)
(* thread that unbinds the device run beside it.                           *)
(***************************************************************************)
EXTENDS Integers, Sequences, FiniteSets, TLC

\* ------------------------------------------------------------------------
\* Bounds of the model
\* ------------------------------------------------------------------------
MaxInitCalls == 2
MaxVersion == 2
MaxStreamCnt == 1
MaxWideStreamCnt == 11
MaxPhysPages == 1
MaxPhysHigh == 1
MaxDrains == 17

\* ------------------------------------------------------------------------
\* Status codes
\* ------------------------------------------------------------------------
NO_ERROR == "NO_ERROR"
ERR_INVALID_ARGS == "ERR_INVALID_ARGS"
ERR_BAD_STATE == "ERR_BAD_STATE"
ERR_TIMED_OUT == "ERR_TIMED_OUT"
ERR_NOT_SUPPORTED == "ERR_NOT_SUPPORTED"
ERR_INTERNAL == "ERR_INTERNAL"
ERR_NO_MEMORY == "ERR_NO_MEMORY"
\* The failure an external collaborator (bus-claim service, allocator,
\* device_add) hands back.
ERR_EXTERNAL == "ERR_EXTERNAL"

nullptr == "nullptr"
\* The device handed to Init by the framework.
PciDevice == "pci_dev"

\* ------------------------------------------------------------------------
\* Timing constants (nanoseconds)
\* ------------------------------------------------------------------------
INTEL_HDA_RESET_HOLD_TIME_NSEC == 100000
INTEL_HDA_RESET_TIMEOUT_NSEC == 1000000
INTEL_HDA_RING_BUF_RESET_TIMEOUT_NSEC == 1000000
INTEL_HDA_RESET_POLL_TIMEOUT_NSEC == 10000
INTEL_HDA_CODEC_DISCOVERY_WAIT_NSEC == 521000

\* ------------------------------------------------------------------------
\* Stream descriptors
\* ------------------------------------------------------------------------
MAX_STREAMS_PER_CONTROLLER == 30
sizeof_IntelHDABDLEntry == 16
MAX_BDL_LENGTH == 32

Uint16(x) == x % 65536

\* An empty slot of all_streams_ (a null RefPtr).
NoStream == [type |-> "none", id |-> 0, desc |-> 0, bdl_off |-> 0]

\* ------------------------------------------------------------------------
\* Ring buffers
\* ------------------------------------------------------------------------
HDA_REG_CORBSIZE_CFG_2ENT == 0
HDA_REG_CORBSIZE_CFG_16ENT == 1
HDA_REG_CORBSIZE_CFG_256ENT == 2
HDA_REG_CORBSIZE_CAP_2ENT == 16
HDA_REG_CORBSIZE_CAP_16ENT == 32
HDA_REG_CORBSIZE_CAP_256ENT == 64
RIRB_RESERVED_RESPONSE_SLOTS == 8
\* Physical addresses are counted in units of 128 bytes, the alignment the
\* ring base addresses must have: 2^32 bytes are Units4G units.
AddrUnit == 128
Units4G == 33554432
HDA_CORB_MAX_BYTES == 1024
\* Values of a uint8_t register.
Uint8Max == 255

NoSizeCall == [reg |-> "none", tmp |-> 0, res |-> "none"]

\* The threads that acquire and release streams.
PoolThreads == {"t1", "t2"}

VARIABLES
    pc,                  \* position of the thread running Init
    pci_dev,             \* Init's argument
    res,                 \* the status InitInternal hands to Init
    init_calls,          \* number of Init calls made so far
    init_trace,          \* steps of InitInternal/Init run by the current call
    step_res,            \* the status each of those steps ended with
    state,               \* controller lifecycle state
    pci_dev_,            \* IntelHDAController::pci_dev_
    regs_,               \* IntelHDAController::regs_ (mapped or nullptr)
    pci_calls,           \* calls made to the PCI protocol, in order
    gctl,                \* HWINIT bit of GCTL as the hardware reports it
    gctl_wr,             \* HWINIT bit of GCTL as last written by software
    waited,              \* nanoseconds slept inside the current WaitCondition
    reset_trace,         \* steps of ResetControllerHW run by the current call
    stream_cnt,          \* <<input, output, bidir>> stream counts read from GCAP
    bdl_mem_,            \* IntelHDAController::bdl_mem_: bytes allocated, mapped
    all_streams_,        \* IntelHDAController::all_streams_
    free_streams_,       \* the free stream pool, in insertion order
    stream_pool_lock_,   \* holder of IntelHDAController::stream_pool_lock_
    pool_pc,             \* position of each thread that uses the stream pool
    pool_req,            \* the stream type each such thread has asked for
    pool_pick,           \* the descriptor each such thread is moving
    owned,               \* the descriptors each such thread has acquired
    corb_lock_,          \* holder of IntelHDAController::corb_lock_
    rirb_lock_,          \* holder of IntelHDAController::rirb_lock_
    cmd_buf_mem_,        \* IntelHDAController::cmd_buf_mem_: allocated, mapped, phys()
    corbrp,              \* RST bit of CORBRP as the hardware reports it
    corbrp_wr,           \* RST bit of CORBRP as last written by software
    cb_log,              \* lock operations and register accesses of SetupCommandBuffer
    size_call,           \* the last SetupCommandBufferSize call: register, value read, status
    rirb_rd_ptr_,        \* IntelHDAController::rirb_rd_ptr_
    corb_entry_count_,   \* IntelHDAController::corb_entry_count_
    rirb_entry_count_,   \* IntelHDAController::rirb_entry_count_
    corb_mask_,          \* IntelHDAController::corb_mask_
    rirb_mask_,          \* IntelHDAController::rirb_mask_
    corb_max_in_flight_, \* IntelHDAController::corb_max_in_flight_
    corb_in_flight,      \* commands enqueued whose response is not drained yet
    rirb_wp,             \* RIRBWP: the slot the hardware wrote last
    rirb_pending,        \* responses written by the hardware and not drained yet
    rirb_drained,        \* responses drained so far
    irq_thread_started_, \* IntelHDAController::irq_thread_started_
    irq_pc,              \* position of the IRQ worker thread
    irq_wakeup,          \* pending wakeup of the IRQ worker thread
    published,           \* device_add succeeded
    unbind_pc            \* position of the framework thread that unbinds

lifeVars == <<state, irq_thread_started_, irq_pc, irq_wakeup, published, unbind_pc>>
callVars == <<pci_dev, init_calls>>
pciVars == <<pci_dev_, regs_, pci_calls>>
resetVars == <<gctl, gctl_wr, waited, reset_trace>>
poolVars == <<stream_pool_lock_, pool_pc, pool_req, pool_pick, owned>>
streamVars == <<stream_cnt, bdl_mem_, all_streams_, free_streams_, poolVars>>
lockVars == <<corb_lock_, rirb_lock_>>
rpVars == <<corbrp, corbrp_wr>>
ringVars == <<rirb_rd_ptr_, corb_entry_count_, rirb_entry_count_, corb_mask_, rirb_mask_,
              corb_max_in_flight_>>
xferVars == <<corb_in_flight, rirb_wp, rirb_pending, rirb_drained>>
cbVars == <<lockVars, cmd_buf_mem_, rpVars, cb_log, size_call, ringVars, xferVars>>

vars == <<pc, res, init_trace, step_res, callVars, lifeVars, pciVars, resetVars,
          streamVars, cbVars>>

\* ------------------------------------------------------------------------
\* Init (the constructed, not yet initialised controller)
\* ------------------------------------------------------------------------
Init ==
    /\ pc = "idle"
    /\ pci_dev = nullptr
    /\ res = NO_ERROR
    /\ init_calls = 0
    /\ init_trace = <<>>
    /\ step_res = <<>>
    /\ state = "UNINITIALIZED"
    /\ pci_dev_ = nullptr
    /\ regs_ = nullptr
    /\ pci_calls = <<>>
    /\ gctl \in {0, 1}
    /\ gctl_wr = gctl
    /\ waited = 0
    /\ reset_trace = <<>>
    /\ stream_cnt = <<0, 0, 0>>
    /\ bdl_mem_ = [size |-> 0, mapped |-> FALSE]
    /\ all_streams_ = [i \in 0..(MAX_STREAMS_PER_CONTROLLER - 1) |-> NoStream]
    /\ free_streams_ = <<>>
    /\ stream_pool_lock_ = "free"
    /\ pool_pc = [t \in PoolThreads |-> "idle"]
    /\ pool_req = [t \in PoolThreads |-> "none"]
    /\ pool_pick = [t \in PoolThreads |-> NoStream]
    /\ owned = [t \in PoolThreads |-> <<>>]
    /\ corb_lock_ = "free"
    /\ rirb_lock_ = "free"
    /\ cmd_buf_mem_ = [allocated |-> FALSE, mapped |-> FALSE, phys |-> 0]
    /\ corbrp = 0
    /\ corbrp_wr = 0
    /\ cb_log = <<>>
    /\ size_call = NoSizeCall
    /\ rirb_rd_ptr_ = 0
    /\ corb_entry_count_ = 0
    /\ rirb_entry_count_ = 0
    /\ corb_mask_ = 0
    /\ rirb_mask_ = 0
    /\ corb_max_in_flight_ = 0
    /\ corb_in_flight = 0
    /\ rirb_wp = 0
    /\ rirb_pending = 0
    /\ rirb_drained = 0
    /\ irq_thread_started_ = FALSE
    /\ irq_pc = "none"
    /\ irq_wakeup = FALSE
    /\ published = FALSE
    /\ unbind_pc = "idle"

\* ------------------------------------------------------------------------
\* Helpers
\* ------------------------------------------------------------------------
Min(a, b) == IF a < b THEN a ELSE b

\* A step of InitInternal/Init starts, and ends with status r.
Begin(name) == init_trace' = Append(init_trace, name)
End(r) == step_res' = Append(step_res, r)

\* Mutant: Init returns a failure without running DeviceShutdown.
InitReturnPc_NoShutdown(r) == "done"

\* Init: where the thread goes once InitInternal has returned r.
InitReturnPc(r) == IF r # NO_ERROR THEN "DeviceShutdown" ELSE "done"

\* InitInternal returns r to Init.
Return(r) ==
    /\ res' = r
    /\ pc' = InitReturnPc(r)

\* WaitCondition: one evaluation of the predicate after w nanoseconds of
\* waiting.  Either the wait is over (with a status) or the thread sleeps one
\* more poll interval, never past the deadline.
WaitCondition(timeout, poll_interval, cond, w) ==
    IF cond THEN [over |-> TRUE, res |-> NO_ERROR, waited |-> 0]
    ELSE IF w >= timeout THEN [over |-> TRUE, res |-> ERR_TIMED_OUT, waited |-> 0]
    ELSE [over |-> FALSE, res |-> NO_ERROR,
          waited |-> w + Min(poll_interval, timeout - w)]

\* ------------------------------------------------------------------------
\* Init is called
\* ------------------------------------------------------------------------
InitCall ==
    /\ pc \in {"idle", "done"}
    /\ unbind_pc # "join"
    /\ init_calls < MaxInitCalls
    /\ \E d \in {nullptr, PciDevice} : pci_dev' = d
    /\ init_calls' = init_calls + 1
    /\ pc' = "SetupPCIDevice"
    /\ res' = NO_ERROR
    /\ init_trace' = <<>>
    /\ step_res' = <<>>
    /\ reset_trace' = <<>>
    /\ waited' = 0
    /\ cb_log' = <<>>
    /\ size_call' = NoSizeCall
    /\ UNCHANGED <<lifeVars, pciVars, gctl, gctl_wr, streamVars, lockVars, cmd_buf_mem_,
                   rpVars, ringVars, xferVars>>

\* ------------------------------------------------------------------------
\* SetupPCIDevice
\* ------------------------------------------------------------------------
\* The places where the bus-claim service can fail, in call order.
PciSteps == <<"device_get_protocol", "claim_device", "set_irq_mode", "map_interrupt",
              "map_mmio", "window_size", "enable_bus_master">>

PciFailPoints == {PciSteps[i] : i \in 1..Len(PciSteps)} \cup {"none"}

\* The protocol calls one step makes.
PciStepCalls(step, msi_ok) ==
    IF step = "set_irq_mode"
    THEN IF msi_ok THEN <<"set_irq_mode(MSI)">>
         ELSE <<"set_irq_mode(MSI)", "set_irq_mode(LEGACY)">>
    ELSE IF step = "window_size" THEN <<>>
    ELSE <<step>>

RECURSIVE PciCallsFrom(_, _, _)
PciCallsFrom(i, fail, msi_ok) ==
    IF i > Len(PciSteps) THEN <<>>
    ELSE IF PciSteps[i] = fail THEN PciStepCalls(PciSteps[i], msi_ok)
    ELSE PciStepCalls(PciSteps[i], msi_ok) \o PciCallsFrom(i + 1, fail, msi_ok)

\* Mutant: the "already set up" check is missing.
SetupPCIDeviceResult_NoInitCheck(dev, cur, fail, msi_ok) ==
    IF dev = nullptr
    THEN [res |-> ERR_INVALID_ARGS, pci_dev_ |-> cur, mapped |-> FALSE, calls |-> <<>>]
    ELSE [res |-> IF fail = "none" THEN NO_ERROR
                  ELSE IF fail = "window_size" THEN ERR_INVALID_ARGS
                  ELSE ERR_EXTERNAL,
          pci_dev_ |-> dev,
          mapped |-> (fail = "none"),
          calls |-> PciCallsFrom(1, fail, msi_ok)]

\* SetupPCIDevice(dev) on a controller whose pci_dev_ is cur, the bus-claim
\* service failing at `fail`: the status, and the fields it leaves.
SetupPCIDeviceResult(dev, cur, fail, msi_ok) ==
    IF dev = nullptr
    THEN [res |-> ERR_INVALID_ARGS, pci_dev_ |-> cur, mapped |-> FALSE, calls |-> <<>>]
    ELSE IF cur # nullptr
    THEN [res |-> ERR_BAD_STATE, pci_dev_ |-> cur, mapped |-> FALSE, calls |-> <<>>]
    ELSE [res |-> IF fail = "none" THEN NO_ERROR
                  ELSE IF fail = "window_size" THEN ERR_INVALID_ARGS
                  ELSE ERR_EXTERNAL,
          pci_dev_ |-> dev,
          mapped |-> (fail = "none"),
          calls |-> PciCallsFrom(1, fail, msi_ok)]

SetupPCIDevice ==
    /\ pc = "SetupPCIDevice"
    /\ \E fail \in PciFailPoints, msi_ok \in BOOLEAN :
         /\ (fail = "set_irq_mode") => ~msi_ok
         /\ LET r == SetupPCIDeviceResult(pci_dev, pci_dev_, fail, msi_ok) IN
              /\ pci_dev_' = r.pci_dev_
              /\ regs_' = IF r.mapped THEN "mapped" ELSE regs_
              /\ pci_calls' = pci_calls \o r.calls
              /\ Begin("SetupPCIDevice")
              /\ End(r.res)
              /\ IF r.res = NO_ERROR
                 THEN /\ pc' = "VersionCheck"
                      /\ res' = r.res
                 ELSE Return(r.res)
    /\ UNCHANGED <<callVars, lifeVars, resetVars, streamVars, cbVars>>

\* ------------------------------------------------------------------------
\* Hardware version check
\* ------------------------------------------------------------------------
VersionOk(major, minor) == ~((1 # major) \/ (0 # minor))

VersionCheck ==
    /\ pc = "VersionCheck"
    /\ \E major \in 0..MaxVersion, minor \in 0..MaxVersion :
         /\ Begin("VersionCheck")
         /\ IF VersionOk(major, minor)
            THEN /\ End(NO_ERROR)
                 /\ pc' = "ResetControllerHW"
                 /\ res' = res
            ELSE /\ End(ERR_NOT_SUPPORTED)
                 /\ Return(ERR_NOT_SUPPORTED)
    /\ UNCHANGED <<callVars, lifeVars, pciVars, resetVars, streamVars, cbVars>>

\* ------------------------------------------------------------------------
\* ResetControllerHW
\* ------------------------------------------------------------------------
Op(name, arg) == [op |-> name, arg |-> arg]

\* Mutant: InitInternal goes on after a failed reset.
ResetReturn_Swallow(r) ==
    /\ End(r)
    /\ pc' = "SetupStreamDescriptors"
    /\ res' = r

\* ResetControllerHW returns r to InitInternal.
ResetReturn(r) ==
    /\ End(r)
    /\ IF r = NO_ERROR
       THEN /\ pc' = "SetupStreamDescriptors"
            /\ res' = r
       ELSE Return(r)

\* REG_CLR_BITS(&regs_->gctl, HDA_REG_GCTL_HWINIT)
Reset_ClrHwInit ==
    /\ pc = "ResetControllerHW"
    /\ Begin("ResetControllerHW")
    /\ gctl_wr' = 0
    /\ waited' = 0
    /\ reset_trace' = Append(reset_trace, Op("clr_hwinit", 0))
    /\ pc' = "Reset_WaitCleared"
    /\ UNCHANGED <<res, step_res, callVars, lifeVars, pciVars, gctl, streamVars, cbVars>>

\* Mutant: the hold time is skipped.
AfterWaitCleared_SkipHold(r) == IF r # NO_ERROR THEN "finished" ELSE "Reset_SetHwInit"

\* Mutant: the status of the first poll is not looked at.
AfterWaitCleared_IgnoreTimeout(r) == "Reset_Hold"

\* if (res != NO_ERROR) goto finished; after the first poll.
AfterWaitCleared(r) == IF r # NO_ERROR THEN "finished" ELSE "Reset_Hold"

Reset_WaitCleared ==
    /\ pc = "Reset_WaitCleared"
    /\ LET w == WaitCondition(INTEL_HDA_RESET_TIMEOUT_NSEC,
                              INTEL_HDA_RESET_POLL_TIMEOUT_NSEC,
                              gctl = 0, waited) IN
         /\ waited' = w.waited
         /\ IF ~w.over
            THEN UNCHANGED <<pc, res, step_res, reset_trace>>
            ELSE /\ reset_trace' = Append(reset_trace,
                                          Op(IF w.res = NO_ERROR THEN "poll_cleared"
                                             ELSE "timeout", 0))
                 /\ IF AfterWaitCleared(w.res) = "finished"
                    THEN ResetReturn(w.res)
                    ELSE /\ pc' = AfterWaitCleared(w.res)
                         /\ UNCHANGED <<res, step_res>>
    /\ UNCHANGED <<init_trace, callVars, lifeVars, pciVars, gctl, gctl_wr, streamVars, cbVars>>

\* mx_nanosleep(INTEL_HDA_RESET_HOLD_TIME_NSEC)
Reset_Hold ==
    /\ pc = "Reset_Hold"
    /\ reset_trace' = Append(reset_trace, Op("sleep", INTEL_HDA_RESET_HOLD_TIME_NSEC))
    /\ pc' = "Reset_SetHwInit"
    /\ UNCHANGED <<res, init_trace, step_res, callVars, lifeVars, pciVars,
                   gctl, gctl_wr, waited, streamVars, cbVars>>

\* REG_SET_BITS(&regs_->gctl, HDA_REG_GCTL_HWINIT)
Reset_SetHwInit ==
    /\ pc = "Reset_SetHwInit"
    /\ gctl_wr' = 1
    /\ waited' = 0
    /\ reset_trace' = Append(reset_trace, Op("set_hwinit", 0))
    /\ pc' = "Reset_WaitSet"
    /\ UNCHANGED <<res, init_trace, step_res, callVars, lifeVars, pciVars, gctl, streamVars, cbVars>>

\* if (res != NO_ERROR) goto finished; after the second poll.
AfterWaitSet(r) == IF r # NO_ERROR THEN "finished" ELSE "Reset_Discovery"

Reset_WaitSet ==
    /\ pc = "Reset_WaitSet"
    /\ LET w == WaitCondition(INTEL_HDA_RESET_TIMEOUT_NSEC,
                              INTEL_HDA_RESET_POLL_TIMEOUT_NSEC,
                              gctl # 0, waited) IN
         /\ waited' = w.waited
         /\ IF ~w.over
            THEN UNCHANGED <<pc, res, step_res, reset_trace>>
            ELSE /\ reset_trace' = Append(reset_trace,
                                          Op(IF w.res = NO_ERROR THEN "poll_set"
                                             ELSE "timeout", 0))
                 /\ IF AfterWaitSet(w.res) = "finished"
                    THEN ResetReturn(w.res)
                    ELSE /\ pc' = AfterWaitSet(w.res)
                         /\ UNCHANGED <<res, step_res>>
    /\ UNCHANGED <<init_trace, callVars, lifeVars, pciVars, gctl, gctl_wr, streamVars, cbVars>>

\* mx_nanosleep(INTEL_HDA_CODEC_DISCOVERY_WAIT_NSEC), then finished:
Reset_Discovery ==
    /\ pc = "Reset_Discovery"
    /\ reset_trace' = Append(reset_trace, Op("sleep", INTEL_HDA_CODEC_DISCOVERY_WAIT_NSEC))
    /\ ResetReturn(NO_ERROR)
    /\ UNCHANGED <<init_trace, callVars, lifeVars, pciVars, gctl, gctl_wr, waited, streamVars, cbVars>>

\* The controller hardware takes up the HWINIT value software wrote.
HwGctlAck ==
    /\ gctl # gctl_wr
    /\ gctl' = gctl_wr
    /\ UNCHANGED <<pc, res, init_trace, step_res, callVars, lifeVars, pciVars,
                   gctl_wr, waited, reset_trace, streamVars, cbVars>>

\* ------------------------------------------------------------------------
\* SetupStreamDescriptors
\* ------------------------------------------------------------------------
\* Mutant: the type boundaries are off by one.
StreamType_OffByOne(i, input_stream_cnt, output_stream_cnt) ==
    IF i <= input_stream_cnt THEN "INPUT"
    ELSE IF i <= input_stream_cnt + output_stream_cnt THEN "OUTPUT"
    ELSE "BIDIR"

StreamType(i, input_stream_cnt, output_stream_cnt) ==
    IF i < input_stream_cnt THEN "INPUT"
    ELSE IF i < input_stream_cnt + output_stream_cnt THEN "OUTPUT"
    ELSE "BIDIR"

\* ReturnStreamLocked: the stream goes into the free pool.
ReturnStreamLocked(pool, stream) == Append(pool, stream)

\* Where a new stream descriptor is stored in all_streams_.
StoreStream(all, i, stream) == [all EXCEPT ![i] = stream]

\* Mutant: the BDL offset does not move from one stream to the next.
NextBdlOff_Stuck(bdl_off, bdl_size) == bdl_off

\* bdl_off += bdl_size, at the end of each round of the loop.
NextBdlOff(bdl_off, bdl_size) == bdl_off + bdl_size

\* The for loop from index i on; the allocation of the descriptor with id
\* fail_id fails (0: none does).  The uint32_t index and BDL offset stay far
\* below 2^32 (at most MAX_STREAMS_PER_CONTROLLER regions of bdl_size bytes).
RECURSIVE StreamLoop(_, _, _, _, _, _, _, _, _)
StreamLoop(i, bdl_off, bdl_size, input_stream_cnt, output_stream_cnt, total_stream_cnt, fail_id, all, pool) ==
    IF ~(i < total_stream_cnt)
    THEN [res |-> NO_ERROR, all |-> all, pool |-> pool]
    ELSE LET stream_id == Uint16(i + 1)
             stream == [type |-> StreamType(i, input_stream_cnt, output_stream_cnt),
                        id |-> stream_id,
                        desc |-> i,
                        bdl_off |-> bdl_off]
         IN  IF stream_id = fail_id
             THEN [res |-> ERR_NO_MEMORY, all |-> all, pool |-> pool]
             ELSE StreamLoop(i + 1, NextBdlOff(bdl_off, bdl_size), bdl_size,
                             input_stream_cnt, output_stream_cnt, total_stream_cnt,
                             fail_id, StoreStream(all, i, stream),
                             ReturnStreamLocked(pool, stream))

\* Mutant: only a zero stream count is refused.
StreamCountsValid_NoMax(total_stream_cnt) == ~(total_stream_cnt = 0)

\* The sanity check of the stream counts read from GCAP.
StreamCountsValid(total_stream_cnt) ==
    ~(total_stream_cnt = 0 \/ total_stream_cnt > MAX_STREAMS_PER_CONTROLLER)

\* SetupStreamDescriptors with GCAP reporting the three counts, the allocator
\* answering alloc_ok and map_ok: the status and the fields it leaves.
SetupStreamDescriptorsResult(input_stream_cnt, output_stream_cnt, bidir_stream_cnt, alloc_ok, map_ok, fail_id, mem, all, pool) ==
    LET total_stream_cnt == input_stream_cnt + output_stream_cnt + bidir_stream_cnt
        bdl_size == sizeof_IntelHDABDLEntry * MAX_BDL_LENGTH
        total_bdl_size == bdl_size * total_stream_cnt
    IN  IF ~StreamCountsValid(total_stream_cnt)
        THEN [res |-> ERR_INTERNAL, mem |-> mem, all |-> all, pool |-> pool]
        ELSE IF ~alloc_ok
        THEN [res |-> ERR_EXTERNAL, mem |-> mem, all |-> all, pool |-> pool]
        ELSE IF ~map_ok
        THEN [res |-> ERR_EXTERNAL, mem |-> [size |-> total_bdl_size, mapped |-> FALSE],
              all |-> all, pool |-> pool]
        ELSE LET l == StreamLoop(0, 0, bdl_size, input_stream_cnt, output_stream_cnt,
                                 total_stream_cnt, fail_id, all, pool)
             IN  [res |-> l.res, mem |-> [size |-> total_bdl_size, mapped |-> TRUE],
                  all |-> l.all, pool |-> l.pool]

\* The call, the GCAP stream counts drawn from Counts.
SetupStreamDescriptorsFrom(Counts) ==
    /\ pc = "SetupStreamDescriptors"
    /\ stream_pool_lock_ = "free"
    /\ \E input_stream_cnt \in Counts, output_stream_cnt \in Counts,
          bidir_stream_cnt \in Counts, alloc_ok \in BOOLEAN, map_ok \in BOOLEAN :
         \E fail_id \in 0..(input_stream_cnt + output_stream_cnt + bidir_stream_cnt) :
           LET r == SetupStreamDescriptorsResult(input_stream_cnt, output_stream_cnt,
                                                 bidir_stream_cnt, alloc_ok, map_ok,
                                                 fail_id, bdl_mem_, all_streams_,
                                                 free_streams_)
           IN  /\ stream_cnt' = <<input_stream_cnt, output_stream_cnt, bidir_stream_cnt>>
               /\ bdl_mem_' = r.mem
               /\ all_streams_' = r.all
               /\ free_streams_' = r.pool
               /\ Begin("SetupStreamDescriptors")
               /\ End(r.res)
               /\ IF r.res = NO_ERROR
                  THEN /\ pc' = "SetupCommandBuffer"
                       /\ res' = r.res
                  ELSE Return(r.res)
    /\ UNCHANGED <<callVars, lifeVars, pciVars, resetVars, poolVars, cbVars>>

SetupStreamDescriptors == SetupStreamDescriptorsFrom(0..MaxStreamCnt)

\* ------------------------------------------------------------------------
\* SetupCommandBufferSize
\* ------------------------------------------------------------------------
\* tmp & mask, for a mask of one bit.
TestBit(tmp, mask) == (tmp \div mask) % 2 = 1

\* Mutant: the 16 entry capability is tested before the 256 entry one.
SetupCommandBufferSize_16First(tmp) ==
    IF TestBit(tmp, HDA_REG_CORBSIZE_CAP_16ENT)
    THEN [res |-> NO_ERROR, entry_count |-> 16, wrote |-> TRUE,
          cmd |-> HDA_REG_CORBSIZE_CFG_16ENT]
    ELSE IF TestBit(tmp, HDA_REG_CORBSIZE_CAP_256ENT)
    THEN [res |-> NO_ERROR, entry_count |-> 256, wrote |-> TRUE,
          cmd |-> HDA_REG_CORBSIZE_CFG_256ENT]
    ELSE IF TestBit(tmp, HDA_REG_CORBSIZE_CAP_2ENT)
    THEN [res |-> NO_ERROR, entry_count |-> 2, wrote |-> TRUE,
          cmd |-> HDA_REG_CORBSIZE_CFG_2ENT]
    ELSE [res |-> ERR_BAD_STATE, entry_count |-> 0, wrote |-> FALSE, cmd |-> 0]

\* SetupCommandBufferSize reading tmp from the size register: the status,
\* *entry_count (0: left alone) and the value written back (wrote: whether
\* the register is written at all).
SetupCommandBufferSize(tmp) ==
    IF TestBit(tmp, HDA_REG_CORBSIZE_CAP_256ENT)
    THEN [res |-> NO_ERROR, entry_count |-> 256, wrote |-> TRUE,
          cmd |-> HDA_REG_CORBSIZE_CFG_256ENT]
    ELSE IF TestBit(tmp, HDA_REG_CORBSIZE_CAP_16ENT)
    THEN [res |-> NO_ERROR, entry_count |-> 16, wrote |-> TRUE,
          cmd |-> HDA_REG_CORBSIZE_CFG_16ENT]
    ELSE IF TestBit(tmp, HDA_REG_CORBSIZE_CAP_2ENT)
    THEN [res |-> NO_ERROR, entry_count |-> 2, wrote |-> TRUE,
          cmd |-> HDA_REG_CORBSIZE_CFG_2ENT]
    ELSE [res |-> ERR_BAD_STATE, entry_count |-> 0, wrote |-> FALSE, cmd |-> 0]

\* ------------------------------------------------------------------------
\* SetupCommandBuffer
\* ------------------------------------------------------------------------
Lock(name) == [op |-> "lock", reg |-> name, bits |-> {}, num |-> 0]
Unlock(name) == [op |-> "unlock", reg |-> name, bits |-> {}, num |-> 0]
\* REG_WR(&regs_->reg, value): the value as named bits, or as a number.
WrBits(reg, bits) == [op |-> "REG_WR", reg |-> reg, bits |-> bits, num |-> 0]
WrNum(reg, num) == [op |-> "REG_WR", reg |-> reg, bits |-> {}, num |-> num]
\* WaitCondition on a register ended: the bits were seen as waited for, or
\* the wait timed out.
Poll(reg, bits) == [op |-> "poll", reg |-> reg, bits |-> bits, num |-> 0]
Timeout(reg, bits) == [op |-> "timeout", reg |-> reg, bits |-> bits, num |-> 0]
\* REG_RD(&regs_->reg), the value read as named bits.
RdBits(reg, bits) == [op |-> "REG_RD", reg |-> reg, bits |-> bits, num |-> 0]

\* Mutant: a failing return leaves both ring locks held.
CBReturn_KeepLocks(r, ops) ==
    /\ cb_log' = cb_log \o ops \o (IF r = NO_ERROR
                                   THEN <<Unlock("rirb_lock_"), Unlock("corb_lock_")>>
                                   ELSE <<>>)
    /\ corb_lock_' = IF r = NO_ERROR THEN "free" ELSE "SetupCommandBuffer"
    /\ rirb_lock_' = IF r = NO_ERROR THEN "free" ELSE "SetupCommandBuffer"
    /\ End(r)
    /\ IF r = NO_ERROR
       THEN /\ pc' = "ThreadCreate"
            /\ res' = r
       ELSE Return(r)

\* SetupCommandBuffer returns r to InitInternal, having logged ops; the two
\* AutoLocks let go in reverse order.
CBReturn(r, ops) ==
    /\ cb_log' = cb_log \o ops \o <<Unlock("rirb_lock_"), Unlock("corb_lock_")>>
    /\ corb_lock_' = "free"
    /\ rirb_lock_' = "free"
    /\ End(r)
    /\ IF r = NO_ERROR
       THEN /\ pc' = "ThreadCreate"
            /\ res' = r
       ELSE Return(r)

\* Physical addresses the allocator may hand out for the command buffer:
\* pages below 4GB, and addresses above it.
CmdBufPhys == {(4096 \div AddrUnit) * k : k \in 1..MaxPhysPages}
              \cup {Units4G * h + 1 : h \in 1..MaxPhysHigh}

\* Both locks are taken, the command buffer is allocated and mapped.
CB_Allocate ==
    /\ pc = "SetupCommandBuffer"
    /\ corb_lock_ = "free"
    /\ rirb_lock_ = "free"
    /\ Begin("SetupCommandBuffer")
    /\ \E alloc_ok \in BOOLEAN, map_ok \in BOOLEAN, phys \in CmdBufPhys :
         /\ cmd_buf_mem_' = IF alloc_ok
                            THEN [allocated |-> TRUE, mapped |-> map_ok, phys |-> phys]
                            ELSE cmd_buf_mem_
         /\ IF alloc_ok /\ map_ok
            THEN /\ cb_log' = cb_log \o <<Lock("corb_lock_"), Lock("rirb_lock_")>>
                 /\ corb_lock_' = "SetupCommandBuffer"
                 /\ rirb_lock_' = "SetupCommandBuffer"
                 /\ pc' = "CB_Stop"
                 /\ UNCHANGED <<res, step_res>>
            ELSE CBReturn(ERR_EXTERNAL, <<Lock("corb_lock_"), Lock("rirb_lock_")>>)
    /\ UNCHANGED <<callVars, lifeVars, pciVars, resetVars, streamVars, rpVars,
                   size_call, ringVars, xferVars>>

\* Mutant: the ring DMA engines are not stopped.
StopWrites_None == <<>>

\* REG_WR(&regs_->corbctl, 0u); REG_WR(&regs_->rirbctl, 0u);
StopWrites == <<WrBits("corbctl", {}), WrBits("rirbctl", {})>>

\* The ring DMA engines are stopped and the CORB write pointer is zeroed.
CB_Stop ==
    /\ pc = "CB_Stop"
    /\ cb_log' = cb_log \o StopWrites \o <<WrNum("corbwp", 0)>>
    /\ pc' = "ResetCORBRdPtrLocked"
    /\ UNCHANGED <<res, init_trace, step_res, callVars, lifeVars, pciVars, resetVars,
                   streamVars, lockVars, cmd_buf_mem_, rpVars, size_call, ringVars, xferVars>>

\* ResetCORBRdPtrLocked: REG_WR(&regs_->corbrp, HDA_REG_CORBRP_RST)
RP_SetRst ==
    /\ pc = "ResetCORBRdPtrLocked"
    /\ cb_log' = Append(cb_log, WrBits("corbrp", {"RST"}))
    /\ corbrp_wr' = 1
    /\ waited' = 0
    /\ pc' = "RP_WaitSet"
    /\ UNCHANGED <<res, init_trace, step_res, callVars, lifeVars, pciVars, gctl, gctl_wr,
                   reset_trace, streamVars, lockVars, cmd_buf_mem_, corbrp, size_call,
                   ringVars, xferVars>>

\* Mutant: the status of the first poll is not looked at.
AfterRpWaitSet_IgnoreTimeout(r) == "RP_ClrRst"

\* if ((res = WaitCondition(...)) != NO_ERROR) return res; after the first poll.
AfterRpWaitSet(r) == IF r # NO_ERROR THEN "return" ELSE "RP_ClrRst"

\* What a finished WaitCondition on CORBRP leaves in the log.
RpWaitEntry(r, bits) == IF r = NO_ERROR THEN Poll("corbrp", bits)
                        ELSE Timeout("corbrp", bits)

RP_WaitSet ==
    /\ pc = "RP_WaitSet"
    /\ LET w == WaitCondition(INTEL_HDA_RING_BUF_RESET_TIMEOUT_NSEC,
                              INTEL_HDA_RESET_POLL_TIMEOUT_NSEC,
                              corbrp # 0, waited) IN
         /\ waited' = w.waited
         /\ IF ~w.over
            THEN UNCHANGED <<pc, res, step_res, cb_log, lockVars>>
            ELSE IF AfterRpWaitSet(w.res) = "return"
            THEN CBReturn(w.res, <<RpWaitEntry(w.res, {"RST"})>>)
            ELSE /\ pc' = AfterRpWaitSet(w.res)
                 /\ cb_log' = Append(cb_log, RpWaitEntry(w.res, {"RST"}))
                 /\ UNCHANGED <<res, step_res, lockVars>>
    /\ UNCHANGED <<init_trace, callVars, lifeVars, pciVars, gctl, gctl_wr, reset_trace,
                   streamVars, cmd_buf_mem_, rpVars, size_call, ringVars, xferVars>>

\* REG_WR(&regs_->corbrp, 0u)
RP_ClrRst ==
    /\ pc = "RP_ClrRst"
    /\ cb_log' = Append(cb_log, WrBits("corbrp", {}))
    /\ corbrp_wr' = 0
    /\ waited' = 0
    /\ pc' = "RP_WaitClr"
    /\ UNCHANGED <<res, init_trace, step_res, callVars, lifeVars, pciVars, gctl, gctl_wr,
                   reset_trace, streamVars, lockVars, cmd_buf_mem_, corbrp, size_call,
                   ringVars, xferVars>>

RP_WaitClr ==
    /\ pc = "RP_WaitClr"
    /\ LET w == WaitCondition(INTEL_HDA_RING_BUF_RESET_TIMEOUT_NSEC,
                              INTEL_HDA_RESET_POLL_TIMEOUT_NSEC,
                              corbrp = 0, waited) IN
         /\ waited' = w.waited
         /\ IF ~w.over
            THEN UNCHANGED <<pc, res, step_res, cb_log, lockVars>>
            ELSE IF w.res = NO_ERROR
            THEN /\ pc' = "CB_ResetRirb"
                 /\ cb_log' = Append(cb_log, RpWaitEntry(w.res, {}))
                 /\ UNCHANGED <<res, step_res, lockVars>>
            ELSE CBReturn(w.res, <<RpWaitEntry(w.res, {})>>)
    /\ UNCHANGED <<init_trace, callVars, lifeVars, pciVars, gctl, gctl_wr, reset_trace,
                   streamVars, cmd_buf_mem_, rpVars, size_call, ringVars, xferVars>>

\* The controller hardware takes up the CORBRP reset bit software wrote.
HwCorbRpAck ==
    /\ corbrp # corbrp_wr
    /\ corbrp' = corbrp_wr
    /\ UNCHANGED <<pc, res, init_trace, step_res, callVars, lifeVars, pciVars, resetVars,
                   streamVars, lockVars, cmd_buf_mem_, corbrp_wr, cb_log, size_call,
                   ringVars, xferVars>>

\* rirb_rd_ptr_ = 0; REG_WR(&regs_->rirbwp, HDA_REG_RIRBWP_RST)
CB_ResetRirb ==
    /\ pc = "CB_ResetRirb"
    /\ rirb_rd_ptr_' = 0
    /\ cb_log' = Append(cb_log, WrBits("rirbwp", {"RST"}))
    /\ rirb_wp' = 0
    /\ pc' = "CB_CorbSize"
    /\ UNCHANGED <<res, init_trace, step_res, callVars, lifeVars, pciVars, resetVars,
                   streamVars, lockVars, cmd_buf_mem_, rpVars, size_call,
                   corb_entry_count_, rirb_entry_count_, corb_mask_, rirb_mask_,
                   corb_max_in_flight_, corb_in_flight, rirb_pending, rirb_drained>>

\* res = SetupCommandBufferSize(&regs_->corbsize, &corb_entry_count_)
CB_CorbSize ==
    /\ pc = "CB_CorbSize"
    /\ \E tmp \in 0..Uint8Max :
         LET r == SetupCommandBufferSize(tmp) IN
           /\ size_call' = [reg |-> "corbsize", tmp |-> tmp, res |-> r.res]
           /\ corb_entry_count_' = IF r.entry_count # 0 THEN r.entry_count
                                   ELSE corb_entry_count_
           /\ cb_log' = cb_log \o (IF r.wrote THEN <<WrNum("corbsize", r.cmd)>> ELSE <<>>)
    /\ pc' = "CB_CorbSizeRet"
    /\ UNCHANGED <<res, init_trace, step_res, callVars, lifeVars, pciVars, resetVars,
                   streamVars, lockVars, cmd_buf_mem_, rpVars, rirb_rd_ptr_,
                   rirb_entry_count_, corb_mask_, rirb_mask_, corb_max_in_flight_, xferVars>>

\* if (res != NO_ERROR) return res;
CB_CorbSizeRet ==
    /\ pc = "CB_CorbSizeRet"
    /\ size_call' = NoSizeCall
    /\ IF size_call.res = NO_ERROR
       THEN /\ pc' = "CB_RirbSize"
            /\ UNCHANGED <<res, step_res, lockVars, cb_log>>
       ELSE CBReturn(size_call.res, <<>>)
    /\ UNCHANGED <<init_trace, callVars, lifeVars, pciVars, resetVars, streamVars,
                   cmd_buf_mem_, rpVars, ringVars, xferVars>>

\* res = SetupCommandBufferSize(&regs_->rirbsize, &rirb_entry_count_)
CB_RirbSize ==
    /\ pc = "CB_RirbSize"
    /\ \E tmp \in 0..Uint8Max :
         LET r == SetupCommandBufferSize(tmp) IN
           /\ size_call' = [reg |-> "rirbsize", tmp |-> tmp, res |-> r.res]
           /\ rirb_entry_count_' = IF r.entry_count # 0 THEN r.entry_count
                                   ELSE rirb_entry_count_
           /\ cb_log' = cb_log \o (IF r.wrote THEN <<WrNum("rirbsize", r.cmd)>> ELSE <<>>)
    /\ pc' = "CB_RirbSizeRet"
    /\ UNCHANGED <<res, init_trace, step_res, callVars, lifeVars, pciVars, resetVars,
                   streamVars, lockVars, cmd_buf_mem_, rpVars, rirb_rd_ptr_,
                   corb_entry_count_, corb_mask_, rirb_mask_, corb_max_in_flight_, xferVars>>

\* if (res != NO_ERROR) return res;
CB_RirbSizeRet ==
    /\ pc = "CB_RirbSizeRet"
    /\ size_call' = NoSizeCall
    /\ IF size_call.res = NO_ERROR
       THEN /\ pc' = "CB_Masks"
            /\ UNCHANGED <<res, step_res, lockVars, cb_log>>
       ELSE CBReturn(size_call.res, <<>>)
    /\ UNCHANGED <<init_trace, callVars, lifeVars, pciVars, resetVars, streamVars,
                   cmd_buf_mem_, rpVars, ringVars, xferVars>>

\* corb_mask_, rirb_mask_ (unsigned: the counts are at least 2 here).
RingMask(entry_count) == entry_count - 1

\* Mutant: the result is not limited to corb_mask_.
CorbMaxInFlight_NoMin(corb_mask, rirb_mask) ==
    IF rirb_mask > RIRB_RESERVED_RESPONSE_SLOTS
    THEN rirb_mask - RIRB_RESERVED_RESPONSE_SLOTS
    ELSE 1

\* Mutant: a small response ring leaves no command in flight.
CorbMaxInFlight_NoClamp(corb_mask, rirb_mask) ==
    LET reserved == IF rirb_mask > RIRB_RESERVED_RESPONSE_SLOTS
                    THEN rirb_mask - RIRB_RESERVED_RESPONSE_SLOTS
                    ELSE 0
    IN  Min(reserved, corb_mask)

\* Mutant: the size of the response ring is not looked at.
CorbMaxInFlight_CorbOnly(corb_mask, rirb_mask) == corb_mask

\* corb_max_in_flight_ from the two masks.
CorbMaxInFlight(corb_mask, rirb_mask) ==
    LET reserved == IF rirb_mask > RIRB_RESERVED_RESPONSE_SLOTS
                    THEN rirb_mask - RIRB_RESERVED_RESPONSE_SLOTS
                    ELSE 1
    IN  Min(reserved, corb_mask)

\* "Stash these so we don't have to constantly recalculate then"
CB_Masks ==
    /\ pc = "CB_Masks"
    /\ corb_mask_' = RingMask(corb_entry_count_)
    /\ rirb_mask_' = RingMask(rirb_entry_count_)
    /\ corb_max_in_flight_' = CorbMaxInFlight(RingMask(corb_entry_count_),
                                              RingMask(rirb_entry_count_))
    /\ pc' = "CB_Base"
    /\ UNCHANGED <<res, init_trace, step_res, callVars, lifeVars, pciVars, resetVars,
                   streamVars, lockVars, cmd_buf_mem_, rpVars, cb_log, size_call,
                   rirb_rd_ptr_,
                   corb_entry_count_, rirb_entry_count_, xferVars>>

\* Mutant: the address is cut to 32 bits before it is looked at.
Hi32_Truncated(paddr) == 0

\* (uint32_t)(paddr64 & 0xFFFFFFFF) and (uint32_t)(paddr64 >> 32)
Lo32(paddr) == (paddr % Units4G) * AddrUnit
Hi32(paddr) == paddr \div Units4G

\* The base address registers of both rings are programmed.
CB_Base ==
    /\ pc = "CB_Base"
    /\ \E gcap_64bit_ok \in BOOLEAN :
         LET cmd_buf_paddr64 == cmd_buf_mem_.phys
             gcap == RdBits("gcap", IF gcap_64bit_ok THEN {"64OK"} ELSE {})
         IN
         IF Hi32(cmd_buf_paddr64) # 0 /\ ~gcap_64bit_ok
         THEN CBReturn(ERR_NOT_SUPPORTED, <<gcap>>)
         ELSE LET rirb_paddr64 == cmd_buf_paddr64 + HDA_CORB_MAX_BYTES \div AddrUnit IN
              /\ cb_log' = cb_log \o <<gcap,
                                       WrNum("corblbase", Lo32(cmd_buf_paddr64)),
                                       WrNum("corbubase", Hi32(cmd_buf_paddr64)),
                                       WrNum("rirblbase", Lo32(rirb_paddr64)),
                                       WrNum("rirbubase", Hi32(rirb_paddr64))>>
              /\ pc' = "CB_Enable"
              /\ UNCHANGED <<res, step_res, lockVars>>
    /\ UNCHANGED <<init_trace, callVars, lifeVars, pciVars, resetVars, streamVars,
                   cmd_buf_mem_, rpVars, size_call, ringVars, xferVars>>

\* Mutant: no response slot is held back.
RintCnt_NoReserve(rirb_entry_count) == rirb_entry_count - 1

\* The response interrupt count threshold.
RintCnt(rirb_entry_count) ==
    LET thresh == rirb_entry_count - 1
    IN  IF thresh > RIRB_RESERVED_RESPONSE_SLOTS
        THEN thresh - RIRB_RESERVED_RESPONSE_SLOTS
        ELSE thresh

\* REG_WR(&regs_->corbctl, MEIE | DMA_EN); REG_WR(&regs_->rirbctl, INTCTL | DMA_EN | OIC);
EnableWrites == <<WrBits("corbctl", {"MEIE", "DMA_EN"}),
                  WrBits("rirbctl", {"INTCTL", "DMA_EN", "OIC"})>>

\* Threshold, stale status bits, then the IRQs and DMA engines are enabled.
CB_Enable ==
    /\ pc = "CB_Enable"
    /\ CBReturn(NO_ERROR,
                <<WrNum("rintcnt", RintCnt(rirb_entry_count_)),
                  WrBits("corbsts", {"MEI"}),
                  WrBits("rirbsts", {"INTFL", "OIS"})>> \o EnableWrites)
    /\ UNCHANGED <<init_trace, callVars, lifeVars, pciVars, resetVars, streamVars,
                   cmd_buf_mem_, rpVars, size_call, ringVars, xferVars>>

\* ------------------------------------------------------------------------
\* IRQ thread start, device publication
\* ------------------------------------------------------------------------
SetState(s) == state' = s

WakeupIRQThread == irq_wakeup' = TRUE

\* thrd_create_with_name(&irq_thread_, ...)
ThreadCreate ==
    /\ pc = "ThreadCreate"
    /\ Begin("ThreadCreate")
    /\ \E musl_ok \in BOOLEAN :
         IF ~musl_ok
         THEN /\ SetState("SHUT_DOWN")
              /\ End(ERR_INTERNAL)
              /\ Return(ERR_INTERNAL)
              /\ UNCHANGED <<irq_thread_started_, irq_pc>>
         ELSE /\ irq_thread_started_' = TRUE
              /\ irq_pc' = "waiting"
              /\ End(NO_ERROR)
              /\ pc' = "device_add"
              /\ UNCHANGED <<res, state>>
    /\ UNCHANGED <<callVars, irq_wakeup, published, unbind_pc, pciVars, resetVars,
                   streamVars, cbVars>>

\* Mutant: the controller is set operating whatever device_add returned.
AfterDeviceAdd_Always(r) == "SetState"

\* if (res == NO_ERROR) { ... SetState(State::OPERATING); ... } ... return res;
AfterDeviceAdd(r) == IF r = NO_ERROR THEN "SetState" ELSE InitReturnPc(r)

\* res = device_add(&dev_node_, pci_dev_)
DeviceAdd ==
    /\ pc = "device_add"
    /\ Begin("device_add")
    /\ \E add_ok \in BOOLEAN :
         LET r == IF add_ok THEN NO_ERROR ELSE ERR_EXTERNAL IN
           /\ published' = IF add_ok THEN TRUE ELSE published
           /\ End(r)
           /\ res' = r
           /\ pc' = AfterDeviceAdd(r)
    /\ UNCHANGED <<callVars, state, irq_thread_started_, irq_pc, irq_wakeup, unbind_pc,
                   pciVars, resetVars, streamVars, cbVars>>

\* this->AddRef(); SetState(State::OPERATING);
SetStateOperating ==
    /\ pc = "SetState"
    /\ SetState("OPERATING")
    /\ pc' = "WakeupIRQThread"
    /\ UNCHANGED <<res, init_trace, step_res, callVars, irq_thread_started_, irq_pc,
                   irq_wakeup, published, unbind_pc, pciVars, resetVars, streamVars,
                   cbVars>>

\* WakeupIRQThread(); ... return res;
InitWakeup ==
    /\ pc = "WakeupIRQThread"
    /\ WakeupIRQThread
    /\ Return(res)
    /\ UNCHANGED <<init_trace, step_res, callVars, state, irq_thread_started_, irq_pc,
                   published, unbind_pc, pciVars, resetVars, streamVars, cbVars>>

\* ------------------------------------------------------------------------
\* DeviceShutdown: the teardown, run by Init on failure and by unbind
\* ------------------------------------------------------------------------
\* The teardown starts: a running IRQ thread is told to go, else the
\* controller is shut down at once.  joined: whether there is a thread to
\* wait for.
ShutdownStart(joined) ==
    IF irq_thread_started_
    THEN /\ SetState("SHUTTING_DOWN")
         /\ WakeupIRQThread
         /\ joined = TRUE
    ELSE /\ SetState("SHUT_DOWN")
         /\ UNCHANGED irq_wakeup
         /\ joined = FALSE

\* The IRQ thread has been joined.
ShutdownFinish ==
    /\ irq_pc = "exited"
    /\ irq_thread_started_' = FALSE
    /\ SetState("SHUT_DOWN")

DeviceShutdown ==
    /\ pc = "DeviceShutdown"
    /\ Begin("DeviceShutdown")
    /\ \E joined \in BOOLEAN :
         /\ ShutdownStart(joined)
         /\ pc' = IF joined THEN "ShutdownJoin" ELSE "done"
    /\ UNCHANGED <<res, step_res, callVars, irq_thread_started_, irq_pc, published,
                   unbind_pc, pciVars, resetVars, streamVars, cbVars>>

DeviceShutdownJoin ==
    /\ pc = "ShutdownJoin"
    /\ ShutdownFinish
    /\ pc' = "done"
    /\ UNCHANGED <<res, init_trace, step_res, callVars, irq_pc, irq_wakeup, published,
                   unbind_pc, pciVars, resetVars, streamVars, cbVars>>

\* ------------------------------------------------------------------------
\* The IRQ worker thread
\* ------------------------------------------------------------------------
\* The thread wakes up and looks at the state: it starts (or goes on)
\* operating, or it exits when the controller is shutting down.
IRQThread ==
    /\ irq_pc \in {"waiting", "operating"}
    /\ irq_wakeup
    /\ irq_wakeup' = FALSE
    /\ IF state = "SHUTTING_DOWN"
       THEN /\ irq_pc' = "exited"
            /\ SetState("SHUT_DOWN")
       ELSE /\ irq_pc' = IF state = "OPERATING" THEN "operating" ELSE irq_pc
            /\ UNCHANGED state
    /\ UNCHANGED <<pc, res, init_trace, step_res, callVars, irq_thread_started_,
                   published, unbind_pc, pciVars, resetVars, streamVars, cbVars>>

\* ------------------------------------------------------------------------
\* Unbind (the driver framework's thread)
\* ------------------------------------------------------------------------
UnbindStart ==
    /\ published
    /\ unbind_pc = "idle"
    /\ \E joined \in BOOLEAN :
         /\ ShutdownStart(joined)
         /\ unbind_pc' = IF joined THEN "join" ELSE "done"
    /\ UNCHANGED <<pc, res, init_trace, step_res, callVars, irq_thread_started_, irq_pc,
                   published, pciVars, resetVars, streamVars, cbVars>>

\* The framework unbinds a device only once Init has returned.
Unbind ==
    /\ pc = "done"
    /\ UnbindStart

\* Unbind arrives while Init is still running (after device_add).
UnbindEarly ==
    /\ pc \notin {"idle", "done"}
    /\ UnbindStart

UnbindJoin ==
    /\ unbind_pc = "join"
    /\ ShutdownFinish
    /\ unbind_pc' = "done"
    /\ UNCHANGED <<pc, res, init_trace, step_res, callVars, irq_pc, irq_wakeup, published,
                   pciVars, resetVars, streamVars, cbVars>>

Next ==
    \/ InitCall
    \/ SetupPCIDevice
    \/ VersionCheck
    \/ Reset_ClrHwInit
    \/ Reset_WaitCleared
    \/ Reset_Hold
    \/ Reset_SetHwInit
    \/ Reset_WaitSet
    \/ Reset_Discovery
    \/ HwGctlAck
    \/ SetupStreamDescriptors
    \/ CB_Allocate
    \/ CB_Stop
    \/ RP_SetRst
    \/ RP_WaitSet
    \/ RP_ClrRst
    \/ RP_WaitClr
    \/ HwCorbRpAck
    \/ CB_ResetRirb
    \/ CB_CorbSize
    \/ CB_CorbSizeRet
    \/ CB_RirbSize
    \/ CB_RirbSizeRet
    \/ CB_Masks
    \/ CB_Base
    \/ CB_Enable
    \/ ThreadCreate
    \/ DeviceAdd
    \/ SetStateOperating
    \/ InitWakeup
    \/ DeviceShutdown
    \/ DeviceShutdownJoin
    \/ IRQThread
    \/ Unbind
    \/ UnbindJoin

Spec == Init /\ [][Next]_vars

\* ------------------------------------------------------------------------
\* SetupStreamDescriptors over all the stream counts GCAP may report
\* ------------------------------------------------------------------------
\* The first Init call has come to SetupStreamDescriptors.
InitStreams ==
    /\ pc = "SetupStreamDescriptors"
    /\ pci_dev = PciDevice
    /\ res = NO_ERROR
    /\ init_calls = 1
    /\ init_trace = <<"SetupPCIDevice", "VersionCheck", "ResetControllerHW">>
    /\ step_res = <<NO_ERROR, NO_ERROR, NO_ERROR>>
    /\ state = "UNINITIALIZED"
    /\ pci_dev_ = PciDevice
    /\ regs_ = "mapped"
    /\ \E msi_ok \in BOOLEAN : pci_calls = PciCallsFrom(1, "none", msi_ok)
    /\ gctl = 1
    /\ gctl_wr = 1
    /\ waited = 0
    /\ reset_trace = <<Op("clr_hwinit", 0), Op("poll_cleared", 0),
                       Op("sleep", INTEL_HDA_RESET_HOLD_TIME_NSEC),
                       Op("set_hwinit", 0), Op("poll_set", 0),
                       Op("sleep", INTEL_HDA_CODEC_DISCOVERY_WAIT_NSEC)>>
    /\ stream_cnt = <<0, 0, 0>>
    /\ bdl_mem_ = [size |-> 0, mapped |-> FALSE]
    /\ all_streams_ = [i \in 0..(MAX_STREAMS_PER_CONTROLLER - 1) |-> NoStream]
    /\ free_streams_ = <<>>
    /\ stream_pool_lock_ = "free"
    /\ pool_pc = [t \in PoolThreads |-> "idle"]
    /\ pool_req = [t \in PoolThreads |-> "none"]
    /\ pool_pick = [t \in PoolThreads |-> NoStream]
    /\ owned = [t \in PoolThreads |-> <<>>]
    /\ corb_lock_ = "free"
    /\ rirb_lock_ = "free"
    /\ cmd_buf_mem_ = [allocated |-> FALSE, mapped |-> FALSE, phys |-> 0]
    /\ corbrp = 0
    /\ corbrp_wr = 0
    /\ cb_log = <<>>
    /\ size_call = NoSizeCall
    /\ rirb_rd_ptr_ = 0
    /\ corb_entry_count_ = 0
    /\ rirb_entry_count_ = 0
    /\ corb_mask_ = 0
    /\ rirb_mask_ = 0
    /\ corb_max_in_flight_ = 0
    /\ corb_in_flight = 0
    /\ rirb_wp = 0
    /\ rirb_pending = 0
    /\ rirb_drained = 0
    /\ irq_thread_started_ = FALSE
    /\ irq_pc = "none"
    /\ irq_wakeup = FALSE
    /\ published = FALSE
    /\ unbind_pc = "idle"

SetupStreamDescriptorsWide == SetupStreamDescriptorsFrom(0..MaxWideStreamCnt)

NextStreams == SetupStreamDescriptorsWide

SpecStreams == InitStreams /\ [][NextStreams]_vars

\* The same, without the framework's promise that Unbind waits for Init.
NextRace ==
    \/ Next
    \/ UnbindEarly

SpecRace == Init /\ [][NextRace]_vars

\* ------------------------------------------------------------------------
\* The operating controller
\* ------------------------------------------------------------------------
\* The first Init call has returned NO_ERROR: GCAP reported the stream
\* counts (input, output, bidir), the ring size registers read corb_tmp and
\* rirb_tmp, and the IRQ thread has begun operating.
Operating(input, output, bidir, corb_tmp, rirb_tmp) ==
    LET streams == SetupStreamDescriptorsResult(
                       input, output, bidir, TRUE, TRUE, 0,
                       [size |-> 0, mapped |-> FALSE],
                       [i \in 0..(MAX_STREAMS_PER_CONTROLLER - 1) |-> NoStream], <<>>)
        corb == SetupCommandBufferSize(corb_tmp)
        rirb == SetupCommandBufferSize(rirb_tmp)
        phys == 4096 \div AddrUnit
        rirb_phys == phys + HDA_CORB_MAX_BYTES \div AddrUnit
    IN
    /\ streams.res = NO_ERROR
    /\ corb.res = NO_ERROR
    /\ rirb.res = NO_ERROR
    /\ pc = "done"
    /\ pci_dev = PciDevice
    /\ res = NO_ERROR
    /\ init_calls = 1
    /\ init_trace = <<"SetupPCIDevice", "VersionCheck", "ResetControllerHW",
                      "SetupStreamDescriptors", "SetupCommandBuffer", "ThreadCreate",
                      "device_add">>
    /\ step_res = <<NO_ERROR, NO_ERROR, NO_ERROR, NO_ERROR, NO_ERROR, NO_ERROR, NO_ERROR>>
    /\ state = "OPERATING"
    /\ pci_dev_ = PciDevice
    /\ regs_ = "mapped"
    /\ pci_calls = PciCallsFrom(1, "none", TRUE)
    /\ gctl = 1
    /\ gctl_wr = 1
    /\ waited = 0
    /\ reset_trace = <<Op("clr_hwinit", 0), Op("poll_cleared", 0),
                       Op("sleep", INTEL_HDA_RESET_HOLD_TIME_NSEC),
                       Op("set_hwinit", 0), Op("poll_set", 0),
                       Op("sleep", INTEL_HDA_CODEC_DISCOVERY_WAIT_NSEC)>>
    /\ stream_cnt = <<input, output, bidir>>
    /\ bdl_mem_ = streams.mem
    /\ all_streams_ = streams.all
    /\ free_streams_ = streams.pool
    /\ stream_pool_lock_ = "free"
    /\ pool_pc = [t \in PoolThreads |-> "idle"]
    /\ pool_req = [t \in PoolThreads |-> "none"]
    /\ pool_pick = [t \in PoolThreads |-> NoStream]
    /\ owned = [t \in PoolThreads |-> <<>>]
    /\ corb_lock_ = "free"
    /\ rirb_lock_ = "free"
    /\ cmd_buf_mem_ = [allocated |-> TRUE, mapped |-> TRUE, phys |-> phys]
    /\ corbrp = 0
    /\ corbrp_wr = 0
    /\ cb_log = <<Lock("corb_lock_"), Lock("rirb_lock_")>>
                \o StopWrites
                \o <<WrNum("corbwp", 0),
                     WrBits("corbrp", {"RST"}), RpWaitEntry(NO_ERROR, {"RST"}),
                     WrBits("corbrp", {}), RpWaitEntry(NO_ERROR, {}),
                     WrBits("rirbwp", {"RST"}),
                     WrNum("corbsize", corb.cmd), WrNum("rirbsize", rirb.cmd),
                     RdBits("gcap", {}),
                     WrNum("corblbase", Lo32(phys)), WrNum("corbubase", Hi32(phys)),
                     WrNum("rirblbase", Lo32(rirb_phys)), WrNum("rirbubase", Hi32(rirb_phys)),
                     WrNum("rintcnt", RintCnt(rirb.entry_count)),
                     WrBits("corbsts", {"MEI"}),
                     WrBits("rirbsts", {"INTFL", "OIS"})>>
                \o EnableWrites
                \o <<Unlock("rirb_lock_"), Unlock("corb_lock_")>>
    /\ size_call = NoSizeCall
    /\ rirb_rd_ptr_ = 0
    /\ corb_entry_count_ = corb.entry_count
    /\ rirb_entry_count_ = rirb.entry_count
    /\ corb_mask_ = RingMask(corb.entry_count)
    /\ rirb_mask_ = RingMask(rirb.entry_count)
    /\ corb_max_in_flight_ = CorbMaxInFlight(RingMask(corb.entry_count),
                                             RingMask(rirb.entry_count))
    /\ corb_in_flight = 0
    /\ rirb_wp = 0
    /\ rirb_pending = 0
    /\ rirb_drained = 0
    /\ irq_thread_started_ = TRUE
    /\ irq_pc = "operating"
    /\ irq_wakeup = FALSE
    /\ published = TRUE
    /\ unbind_pc = "idle"

\* ------------------------------------------------------------------------
\* The stream pool in use: Acquire and Release
\* ------------------------------------------------------------------------
\* What a caller may ask Acquire for: a stream type, or any type.
PoolRequests == {"INPUT", "OUTPUT", "BIDIR", "ANY"}

Matches(stream, type) == type = "ANY" \/ stream.type = type

\* The free descriptors a request can be served with.
MatchingFree(pool, type) == {pool[k] : k \in {j \in 1..Len(pool) : Matches(pool[j], type)}}

\* The pool without a descriptor.
RECURSIVE RemoveStream(_, _)
RemoveStream(pool, stream) ==
    IF pool = <<>> THEN <<>>
    ELSE IF Head(pool) = stream THEN RemoveStream(Tail(pool), stream)
    ELSE <<Head(pool)>> \o RemoveStream(Tail(pool), stream)

\* Mutant: the pool operations do not wait for the pool lock.
PoolLockFree_Always(lock) == TRUE

\* mxtl::AutoLock on stream_pool_lock_ can be taken.
PoolLockFree(lock) == lock = "free"

poolCallerVars == <<pc, res, init_trace, step_res, callVars, lifeVars, pciVars, resetVars,
                    stream_cnt, bdl_mem_, all_streams_, cbVars>>

\* Acquire(type): the caller takes the pool lock.
PoolAcquireBegin(t) ==
    /\ state = "OPERATING"
    /\ pool_pc[t] = "idle"
    /\ PoolLockFree(stream_pool_lock_)
    /\ stream_pool_lock_' = t
    /\ \E type \in PoolRequests : pool_req' = [pool_req EXCEPT ![t] = type]
    /\ pool_pc' = [pool_pc EXCEPT ![t] = "pick"]
    /\ UNCHANGED <<poolCallerVars, free_streams_, pool_pick, owned>>

\* Acquire looks for a free descriptor of the type asked for.
PoolAcquirePick(t) ==
    /\ pool_pc[t] = "pick"
    /\ LET free == MatchingFree(free_streams_, pool_req[t]) IN
         IF free = {}
         THEN pool_pick' = [pool_pick EXCEPT ![t] = NoStream]
         ELSE \E stream \in free : pool_pick' = [pool_pick EXCEPT ![t] = stream]
    /\ pool_pc' = [pool_pc EXCEPT ![t] = "take"]
    /\ UNCHANGED <<poolCallerVars, free_streams_, stream_pool_lock_, pool_req, owned>>

\* Acquire takes the descriptor out of the pool (or reports that there is
\* none), lets go of the lock and returns.
PoolAcquireEnd(t) ==
    /\ pool_pc[t] = "take"
    /\ IF pool_pick[t] = NoStream
       THEN UNCHANGED <<free_streams_, owned>>
       ELSE /\ free_streams_' = RemoveStream(free_streams_, pool_pick[t])
            /\ owned' = [owned EXCEPT ![t] = Append(owned[t], pool_pick[t])]
    /\ pool_pick' = [pool_pick EXCEPT ![t] = NoStream]
    /\ pool_req' = [pool_req EXCEPT ![t] = "none"]
    /\ stream_pool_lock_' = "free"
    /\ pool_pc' = [pool_pc EXCEPT ![t] = "idle"]
    /\ UNCHANGED poolCallerVars

\* Release(descriptor), of a descriptor the caller holds: the caller takes
\* the pool lock.
PoolReleaseBegin(t) ==
    /\ state = "OPERATING"
    /\ pool_pc[t] = "idle"
    /\ owned[t] # <<>>
    /\ PoolLockFree(stream_pool_lock_)
    /\ stream_pool_lock_' = t
    /\ \E k \in 1..Len(owned[t]) : pool_pick' = [pool_pick EXCEPT ![t] = owned[t][k]]
    /\ pool_pc' = [pool_pc EXCEPT ![t] = "put"]
    /\ UNCHANGED <<poolCallerVars, free_streams_, pool_req, owned>>

\* Release puts the descriptor back into the pool and lets go of the lock.
PoolReleaseEnd(t) ==
    /\ pool_pc[t] = "put"
    /\ owned' = [owned EXCEPT ![t] = RemoveStream(owned[t], pool_pick[t])]
    /\ free_streams_' = ReturnStreamLocked(free_streams_, pool_pick[t])
    /\ pool_pick' = [pool_pick EXCEPT ![t] = NoStream]
    /\ stream_pool_lock_' = "free"
    /\ pool_pc' = [pool_pc EXCEPT ![t] = "idle"]
    /\ UNCHANGED <<poolCallerVars, pool_req>>

\* The stream counts of the controllers whose pool is put to use.
PoolCounts == {<<1, 1, 1>>, <<2, 1, 0>>, <<0, 0, 3>>, <<1, 0, 0>>}

InitPool ==
    \E c \in PoolCounts :
      Operating(c[1], c[2], c[3], HDA_REG_CORBSIZE_CAP_256ENT, HDA_REG_CORBSIZE_CAP_256ENT)

NextPool ==
    \/ \E t \in PoolThreads : PoolAcquireBegin(t)
    \/ \E t \in PoolThreads : PoolAcquirePick(t)
    \/ \E t \in PoolThreads : PoolAcquireEnd(t)
    \/ \E t \in PoolThreads : PoolReleaseBegin(t)
    \/ \E t \in PoolThreads : PoolReleaseEnd(t)

SpecPool == InitPool /\ [][NextPool]_vars

\* ------------------------------------------------------------------------
\* The rings in use: commands, responses, draining
\* ------------------------------------------------------------------------
xferCallerVars == <<pc, res, init_trace, step_res, callVars, lifeVars, pciVars, resetVars,
                    streamVars, lockVars, cmd_buf_mem_, rpVars, cb_log, size_call,
                    corb_entry_count_, rirb_entry_count_, corb_mask_, rirb_mask_,
                    corb_max_in_flight_>>

\* A command is enqueued; never more than corb_max_in_flight_ are
\* outstanding past the last drained response.
EnqueueCommand ==
    /\ state = "OPERATING"
    /\ corb_lock_ = "free"
    /\ corb_in_flight < corb_max_in_flight_
    /\ corb_in_flight' = corb_in_flight + 1
    /\ UNCHANGED <<xferCallerVars, rirb_rd_ptr_, rirb_wp, rirb_pending, rirb_drained>>

\* The hardware writes the response to an unanswered command into the next
\* slot of the response ring, whether that slot has been drained or not.
HwResponse ==
    /\ state = "OPERATING"
    /\ rirb_pending < corb_in_flight
    /\ rirb_wp' = (rirb_wp + 1) % rirb_entry_count_
    /\ rirb_pending' = rirb_pending + 1
    /\ UNCHANGED <<xferCallerVars, rirb_rd_ptr_, corb_in_flight, rirb_drained>>

\* The consumer takes one response: the read cursor moves on by one, modulo
\* rirb_entry_count_.
DrainResponse ==
    /\ state = "OPERATING"
    /\ rirb_lock_ = "free"
    /\ rirb_pending > 0
    /\ rirb_drained < MaxDrains
    /\ rirb_rd_ptr_' = (rirb_rd_ptr_ + 1) % rirb_entry_count_
    /\ rirb_pending' = rirb_pending - 1
    /\ corb_in_flight' = corb_in_flight - 1
    /\ rirb_drained' = rirb_drained + 1
    /\ UNCHANGED <<xferCallerVars, rirb_wp>>

\* The values of a ring size register that advertise one size each.
RingSizeCaps == {HDA_REG_CORBSIZE_CAP_256ENT, HDA_REG_CORBSIZE_CAP_16ENT,
                 HDA_REG_CORBSIZE_CAP_2ENT}

InitRings ==
    \E corb_tmp \in RingSizeCaps, rirb_tmp \in RingSizeCaps :
      Operating(1, 1, 0, corb_tmp, rirb_tmp)

NextRings ==
    \/ EnqueueCommand
    \/ HwResponse
    \/ DrainResponse

SpecRings == InitRings /\ [][NextRings]_vars

\* ------------------------------------------------------------------------
\* Properties
\* ------------------------------------------------------------------------
Last(seq) == seq[Len(seq)]
Max(a, b) == IF a > b THEN a ELSE b

\* The steps of InitInternal, in the order the specification gives.
InitOrder == <<"SetupPCIDevice", "VersionCheck", "ResetControllerHW",
               "SetupStreamDescriptors", "SetupCommandBuffer", "ThreadCreate",
               "device_add">>

\* Whether the current call has run DeviceShutdown, and how many steps of
\* InitInternal it has started.
ShutdownRan == init_trace # <<>> /\ Last(init_trace) = "DeviceShutdown"
StepsRun == IF ShutdownRan THEN Len(init_trace) - 1 ELSE Len(init_trace)

\* C1: Init runs PCI setup, version check, reset, stream setup, command
\* buffer setup, IRQ thread start and device publication in that order; a
\* step runs only when every earlier step ended with NO_ERROR; once a step
\* has failed no later step runs, and Init runs DeviceShutdown before it
\* returns that step's status.
C1_InitOrder ==
    /\ StepsRun <= Len(InitOrder)
    /\ \A i \in 1..StepsRun : init_trace[i] = InitOrder[i]
    /\ Len(step_res) <= StepsRun
    /\ StepsRun <= Len(step_res) + 1
    /\ \A i \in 1..Len(step_res) : i < StepsRun => step_res[i] = NO_ERROR
    /\ ShutdownRan => /\ Len(step_res) = StepsRun
                      /\ Last(step_res) # NO_ERROR
    /\ (pc = "done" /\ init_calls > 0) =>
         /\ Len(step_res) = StepsRun
         /\ res = Last(step_res)
         /\ IF res = NO_ERROR
            THEN init_trace = InitOrder
            ELSE ShutdownRan

C1_Witness ==
    /\ pc = "done"
    /\ res = ERR_TIMED_OUT
    /\ init_trace = <<"SetupPCIDevice", "VersionCheck", "ResetControllerHW",
                      "DeviceShutdown">>

\* C2: at the moment Init returns, the state is OPERATING exactly when Init
\* returns NO_ERROR (all steps through device_add succeeded), and it is
\* SHUT_DOWN whenever Init returns a failure.
C2_NoPartialState ==
    [][(pc # "done" /\ pc' = "done") =>
         /\ (state' = "OPERATING") <=> (res' = NO_ERROR)
         /\ (res' = NO_ERROR) => (init_trace' = InitOrder /\ published')
         /\ (res' # NO_ERROR) => (state' = "SHUT_DOWN")]_vars

C2_Witness ==
    /\ pc = "done"
    /\ res = ERR_EXTERNAL
    /\ Len(init_trace) = 8
    /\ init_trace[7] = "device_add"
    /\ irq_pc = "exited"
    /\ state = "SHUT_DOWN"

\* C3: once an unbind has asked for shutdown the lifecycle state never goes
\* from SHUTTING_DOWN or SHUT_DOWN back to OPERATING, also when the unbind
\* arrives between device_add and SetState(OPERATING).
C3_NoReturnToOperating ==
    [][(unbind_pc # "idle" /\ state \in {"SHUTTING_DOWN", "SHUT_DOWN"})
         => state' # "OPERATING"]_vars

\* C4: Init with a device on a controller whose pci_dev_ is already set
\* fails with ERR_BAD_STATE, makes no PCI protocol call and runs neither the
\* reset nor the stream or ring setup; Init with a null device fails with
\* ERR_INVALID_ARGS.
C4_SecondInit ==
    [][/\ (pc = "SetupPCIDevice" /\ pc' # pc /\ pci_dev # nullptr /\ pci_dev_ # nullptr) =>
            /\ res' = ERR_BAD_STATE
            /\ step_res' = <<ERR_BAD_STATE>>
            /\ pc' = "DeviceShutdown"
            /\ UNCHANGED <<pciVars, resetVars, streamVars, cbVars>>
       /\ (pc = "SetupPCIDevice" /\ pc' # pc /\ pci_dev = nullptr) =>
            /\ res' = ERR_INVALID_ARGS
            /\ step_res' = <<ERR_INVALID_ARGS>>
            /\ pc' = "DeviceShutdown"
       /\ (pc # "done" /\ pc' = "done" /\ step_res'[1] # NO_ERROR) =>
            /\ res' = step_res'[1]
            /\ init_trace' = <<"SetupPCIDevice", "DeviceShutdown">>
            /\ UNCHANGED <<pciVars, gctl_wr, reset_trace, streamVars, cbVars>>]_vars

C4_Witness ==
    /\ pc = "done"
    /\ init_calls = 2
    /\ pci_dev = PciDevice
    /\ res = ERR_BAD_STATE
    /\ published
    /\ init_trace = <<"SetupPCIDevice", "DeviceShutdown">>

\* The six steps of a controller reset.
ResetSequence ==
    <<Op("clr_hwinit", 0), Op("poll_cleared", 0),
      Op("sleep", INTEL_HDA_RESET_HOLD_TIME_NSEC),
      Op("set_hwinit", 0), Op("poll_set", 0),
      Op("sleep", INTEL_HDA_CODEC_DISCOVERY_WAIT_NSEC)>>

IsPrefix(a, b) == Len(a) <= Len(b) /\ \A i \in 1..Len(a) : a[i] = b[i]

\* ResetControllerHW has returned, with status r.
ResetReturned(r) == Len(step_res) >= 3 /\ step_res[3] = r

\* C5: a reset that returns NO_ERROR has done exactly: clear HWINIT, poll
\* until cleared, sleep the hold time, set HWINIT, poll until set, sleep the
\* codec discovery time; at every moment the steps done so far are a prefix
\* of that sequence (or such a prefix ended by a timeout).
C5_ResetSequence ==
    /\ ResetReturned(NO_ERROR) => (reset_trace = ResetSequence /\ gctl_wr = 1)
    /\ \/ IsPrefix(reset_trace, ResetSequence)
       \/ /\ Last(reset_trace).op = "timeout"
          /\ IsPrefix(SubSeq(reset_trace, 1, Len(reset_trace) - 1), ResetSequence)
    /\ (reset_trace # <<>> /\ Last(reset_trace).op = "poll_cleared") => gctl_wr = 0
    /\ (pc \in {"Reset_Hold", "Reset_SetHwInit"}) => gctl = 0

C5_Witness ==
    /\ pc = "SetupStreamDescriptors"
    /\ ResetReturned(NO_ERROR)
    /\ reset_trace = ResetSequence

\* C6: a poll of the reset that the hardware never answers ends after the
\* timeout with ERR_TIMED_OUT: the time waited only grows and never passes
\* the timeout, the poll is not retried, no later reset step runs (after a
\* timeout of the first poll HWINIT stays cleared), no later step of Init
\* runs and Init returns ERR_TIMED_OUT after shutting down.
C6_ResetTimeout ==
    [][/\ waited' <= INTEL_HDA_RESET_TIMEOUT_NSEC
       /\ (pc \in {"Reset_WaitCleared", "Reset_WaitSet"} /\ pc' = pc /\ waited' # waited) =>
            waited' > waited
       /\ (pc = "Reset_WaitCleared" /\ pc' # pc /\ gctl # 0) =>
            /\ waited >= INTEL_HDA_RESET_TIMEOUT_NSEC
            /\ reset_trace' = <<Op("clr_hwinit", 0), Op("timeout", 0)>>
            /\ res' = ERR_TIMED_OUT
            /\ pc' = "DeviceShutdown"
       /\ (pc = "Reset_WaitSet" /\ pc' # pc /\ gctl = 0) =>
            /\ waited >= INTEL_HDA_RESET_TIMEOUT_NSEC
            /\ Last(reset_trace').op = "timeout"
            /\ Len(reset_trace') = 5
            /\ res' = ERR_TIMED_OUT
            /\ pc' = "DeviceShutdown"
       /\ (reset_trace' # <<>> /\ Last(reset_trace').op = "timeout") =>
            /\ ResetReturned(ERR_TIMED_OUT)'
            /\ Len(step_res') = 3
            /\ res' = ERR_TIMED_OUT
            /\ StepsRun' = 3
            /\ Len(reset_trace') = 2 => gctl_wr' = 0
            /\ pc' \in {"DeviceShutdown", "ShutdownJoin", "done"}
            /\ pc' = "done" => (ShutdownRan' /\ state' # "OPERATING")]_vars

C6_Witness ==
    /\ pc = "done"
    /\ res = ERR_TIMED_OUT
    /\ reset_trace = <<Op("clr_hwinit", 0), Op("timeout", 0)>>
    /\ gctl_wr = 0
    /\ ShutdownRan

\* The positions of the bits set in a register value.
BitsOf(v) == {b \in 0..7 : (v \div (2 ^ b)) % 2 = 1}

\* The entry counts a size register value advertises: bit 6 stands for 256
\* entries, bit 5 for 16, bit 4 for 2.
CapsOf(v) == {n \in {256, 16, 2} :
                \/ n = 256 /\ 6 \in BitsOf(v)
                \/ n = 16 /\ 5 \in BitsOf(v)
                \/ n = 2 /\ 4 \in BitsOf(v)}

Largest(S) == CHOOSE n \in S : \A m \in S : m <= n

CfgCodeOf(n) == CASE n = 256 -> 2 [] n = 16 -> 1 [] n = 2 -> 0

\* The writes SetupCommandBuffer has made to a register.
WritesTo(reg) == {i \in 1..Len(cb_log) : cb_log[i].op = "REG_WR" /\ cb_log[i].reg = reg}

\* C7: for every value of a ring size register, SetupCommandBufferSize
\* picks the largest of 256, 16 and 2 whose capability bit is set, stores it
\* as the entry count and writes its configuration code to the register;
\* with none of the three bits set it returns ERR_BAD_STATE and the register
\* is not written.
C7_RingSizeSelection ==
    size_call.reg # "none" =>
      LET caps == CapsOf(size_call.tmp)
          count == IF size_call.reg = "corbsize" THEN corb_entry_count_
                   ELSE rirb_entry_count_
      IN  IF caps # {}
          THEN /\ size_call.res = NO_ERROR
               /\ count = Largest(caps)
               /\ Cardinality(WritesTo(size_call.reg)) = 1
               /\ Last(cb_log) = WrNum(size_call.reg, CfgCodeOf(Largest(caps)))
          ELSE /\ size_call.res = ERR_BAD_STATE
               /\ WritesTo(size_call.reg) = {}

C7_Witness ==
    /\ pc = "CB_RirbSizeRet"
    /\ size_call.reg = "rirbsize"
    /\ size_call.tmp = 48
    /\ rirb_entry_count_ = 16
    /\ Last(cb_log) = WrNum("rirbsize", 1)

\* SetupCommandBuffer has returned NO_ERROR.
RingSetupDone == Len(step_res) >= 5 /\ step_res[5] = NO_ERROR

\* C8: after a successful ring setup both entry counts are among 256, 16
\* and 2, corb_mask_ = corb_entry_count_ - 1, rirb_mask_ = rirb_entry_count_
\* - 1 and 1 <= corb_max_in_flight_ <= corb_mask_.
C8_MasksAndInFlightBounds ==
    RingSetupDone =>
      /\ corb_entry_count_ \in {256, 16, 2}
      /\ rirb_entry_count_ \in {256, 16, 2}
      /\ corb_mask_ = corb_entry_count_ - 1
      /\ rirb_mask_ = rirb_entry_count_ - 1
      /\ 1 <= corb_max_in_flight_
      /\ corb_max_in_flight_ <= corb_mask_

C8_Witness ==
    /\ RingSetupDone
    /\ corb_entry_count_ = 256
    /\ rirb_entry_count_ = 16
    /\ corb_mask_ = 255
    /\ corb_max_in_flight_ = 7

\* C9: after a successful ring setup corb_max_in_flight_ is the smaller of
\* corb_mask_ and rirb_mask_ - RIRB_RESERVED_RESPONSE_SLOTS, but at least 1;
\* with 16 CORB entries, 256 RIRB entries and 8 reserved slots it is 15.
C9_InFlightValue ==
    RingSetupDone =>
      /\ corb_max_in_flight_ =
           Max(1, Min(corb_mask_, rirb_mask_ - RIRB_RESERVED_RESPONSE_SLOTS))
      /\ (corb_entry_count_ = 16 /\ rirb_entry_count_ = 256
          /\ RIRB_RESERVED_RESPONSE_SLOTS = 8) => corb_max_in_flight_ = 15

C9_Witness ==
    /\ RingSetupDone
    /\ corb_entry_count_ = 16
    /\ rirb_entry_count_ = 256
    /\ corb_max_in_flight_ = 15

\* SetupStreamDescriptors has returned NO_ERROR.
StreamSetupDone == Len(step_res) >= 4 /\ step_res[4] = NO_ERROR

StreamSlots == 0..(MAX_STREAMS_PER_CONTROLLER - 1)
Created == {i \in StreamSlots : all_streams_[i] # NoStream}
CreatedOfType(t) == {i \in Created : all_streams_[i].type = t}

\* C10: a successful SetupStreamDescriptors with counts (input, output,
\* bidir), 1 <= total <= MAX_STREAMS_PER_CONTROLLER, fills all_streams_[0 ..
\* total-1]: first input INPUT descriptors, then output OUTPUT ones, then
\* bidir BIDIR ones; the descriptor at index i has id i+1, so the ids are
\* exactly 1..total; each descriptor is in all_streams_ once and in the
\* free pool once.
C10_StreamClassification ==
    StreamSetupDone =>
      LET input == stream_cnt[1]
          output == stream_cnt[2]
          bidir == stream_cnt[3]
          total == input + output + bidir
      IN  /\ 1 <= total
          /\ total <= MAX_STREAMS_PER_CONTROLLER
          /\ Created = 0..(total - 1)
          /\ CreatedOfType("INPUT") = 0..(input - 1)
          /\ CreatedOfType("OUTPUT") = input..(input + output - 1)
          /\ CreatedOfType("BIDIR") = (input + output)..(total - 1)
          /\ \A i \in Created : all_streams_[i].id = i + 1
          /\ {all_streams_[i].id : i \in Created} = 1..total
          /\ \A i, j \in Created : all_streams_[i] = all_streams_[j] => i = j
          /\ Len(free_streams_) = total
          /\ \A i \in Created :
               Cardinality({k \in 1..Len(free_streams_) :
                              free_streams_[k] = all_streams_[i]}) = 1

C10_Witness ==
    /\ StreamSetupDone
    /\ stream_cnt = <<10, 9, 11>>
    /\ all_streams_[29].id = 30
    /\ all_streams_[29].type = "BIDIR"
    /\ all_streams_[18].type = "OUTPUT"
    /\ Len(free_streams_) = 30

\* The size of one stream's buffer descriptor list, in bytes.
BdlSize == sizeof_IntelHDABDLEntry * MAX_BDL_LENGTH

\* The bytes of the BDL allocation that stream i's region covers.
BdlRegion(i) == all_streams_[i].bdl_off .. (all_streams_[i].bdl_off + BdlSize - 1)

\* C11: after a successful SetupStreamDescriptors the BDL allocation has
\* BdlSize * total bytes, the region of the stream at index i starts at
\* offset i * BdlSize and is BdlSize bytes long, the regions of two different
\* streams share no byte and every region lies inside the allocation.
C11_BdlRegions ==
    StreamSetupDone =>
      LET total == stream_cnt[1] + stream_cnt[2] + stream_cnt[3]
      IN  /\ bdl_mem_.mapped
          /\ bdl_mem_.size = BdlSize * total
          /\ \A i \in Created :
               /\ all_streams_[i].bdl_off = i * BdlSize
               /\ all_streams_[i].bdl_off + BdlSize <= bdl_mem_.size
          /\ \A i, j \in Created : i # j => BdlRegion(i) \cap BdlRegion(j) = {}

C11_Witness ==
    /\ StreamSetupDone
    /\ stream_cnt = <<11, 11, 8>>
    /\ bdl_mem_.size = 15360
    /\ all_streams_[29].bdl_off = 14848
    /\ all_streams_[1].bdl_off = 512

\* C12: when the stream counts read from GCAP add up to zero or to more
\* than MAX_STREAMS_PER_CONTROLLER, SetupStreamDescriptors returns
\* ERR_INTERNAL and leaves the BDL memory unallocated, all_streams_ and the
\* free pool as they were.
C12_BadStreamCounts ==
    [][(pc = "SetupStreamDescriptors" /\ pc' # pc) =>
         LET total == stream_cnt'[1] + stream_cnt'[2] + stream_cnt'[3]
         IN  (total = 0 \/ total > MAX_STREAMS_PER_CONTROLLER) =>
               /\ Len(step_res') = 4
               /\ Last(step_res') = ERR_INTERNAL
               /\ res' = ERR_INTERNAL
               /\ pc' = "DeviceShutdown"
               /\ bdl_mem_' = [size |-> 0, mapped |-> FALSE]
               /\ Created' = {}
               /\ UNCHANGED <<bdl_mem_, all_streams_, free_streams_>>]_vars

C12_Witness ==
    /\ pc = "DeviceShutdown"
    /\ stream_cnt = <<11, 11, 9>>
    /\ res = ERR_INTERNAL
    /\ bdl_mem_.size = 0
    /\ free_streams_ = <<>>

\* The value SetupCommandBuffer has written to a register it writes once.
Written(log, reg) ==
    LET i == CHOOSE k \in 1..Len(log) : log[k].op = "REG_WR" /\ log[k].reg = reg
    IN  log[i].num

WrittenRegs(log) == {log[k].reg : k \in {j \in 1..Len(log) : log[j].op = "REG_WR"}}

BaseRegs == {"corblbase", "corbubase", "rirblbase", "rirbubase"}

\* GCAP as SetupCommandBuffer read it advertises 64 bit addressing.
Gcap64Ok(log) == \E k \in 1..Len(log) : log[k] = RdBits("gcap", {"64OK"})

\* A register pair holds the whole address (in units of AddrUnit bytes):
\* the low register its remainder modulo 2^32, the high one its quotient.
HoldsAddress(log, lo, hi, paddr) ==
    /\ {lo, hi} \subseteq WrittenRegs(log)
    /\ Written(log, lo) % AddrUnit = 0
    /\ Written(log, lo) \div AddrUnit = paddr % Units4G
    /\ Written(log, hi) = paddr \div Units4G
    /\ Written(log, hi) * Units4G + Written(log, lo) \div AddrUnit = paddr

\* C13: when the command buffer lies at or above 2^32 and GCAP does not
\* advertise 64 bit addressing, ring setup returns ERR_NOT_SUPPORTED and
\* writes none of the four base address registers; otherwise it goes on,
\* ends with NO_ERROR, and the CORB registers hold the buffer's address and
\* the RIRB registers the address HDA_CORB_MAX_BYTES further, the low
\* register the address modulo 2^32 and the high register the address
\* divided by 2^32 (0x1_0000_0080 gives low 0x80 and high 1).
C13_BaseAddress ==
    [][/\ (pc = "CB_Base" /\ pc' # pc) =>
            LET paddr == cmd_buf_mem_.phys
            IN  IF paddr >= Units4G /\ ~Gcap64Ok(cb_log')
                THEN /\ Len(step_res') = 5
                     /\ Last(step_res') = ERR_NOT_SUPPORTED
                     /\ res' = ERR_NOT_SUPPORTED
                     /\ pc' = "DeviceShutdown"
                     /\ WrittenRegs(cb_log') \cap BaseRegs = {}
                ELSE /\ pc' = "CB_Enable"
                     /\ Len(step_res') = 4
                     /\ HoldsAddress(cb_log', "corblbase", "corbubase", paddr)
                     /\ HoldsAddress(cb_log', "rirblbase", "rirbubase",
                                     paddr + HDA_CORB_MAX_BYTES \div AddrUnit)
                     /\ paddr = Units4G + 1 =>
                          /\ Written(cb_log', "corblbase") = 128
                          /\ Written(cb_log', "corbubase") = 1
       /\ (pc = "CB_Enable" /\ pc' # pc) =>
            /\ Len(step_res') = 5
            /\ Last(step_res') = NO_ERROR
            /\ BaseRegs \subseteq WrittenRegs(cb_log')]_vars

C13_Witness ==
    /\ RingSetupDone
    /\ cmd_buf_mem_.phys = Units4G + 1
    /\ Gcap64Ok(cb_log)
    /\ Written(cb_log, "corblbase") = 128
    /\ Written(cb_log, "corbubase") = 1
    /\ Written(cb_log, "rirblbase") = 1152
    /\ Written(cb_log, "rirbubase") = 1

\* device_add has returned, with a failure.
PublicationFailed == Len(step_res) = 7 /\ Last(step_res) # NO_ERROR

\* C15: the IRQ thread has been started when device_add is called; Init
\* wakes it for operation, and it starts operating, only once device_add has
\* succeeded and the state is OPERATING; when device_add fails the state is
\* never set to OPERATING, the thread is woken only to exit, it never
\* operates, and it has exited and been joined when Init returns the failure
\* of device_add.
C15_WorkerHandshake ==
    [][/\ (pc' = "device_add") =>
            (irq_thread_started_' /\ irq_pc' = "waiting" /\ ~irq_wakeup')
       /\ (pc = "WakeupIRQThread" /\ pc' # pc) =>
            /\ published
            /\ state = "OPERATING"
            /\ Len(step_res) = 7
            /\ Last(step_res) = NO_ERROR
            /\ irq_wakeup'
       /\ (irq_pc # "operating" /\ irq_pc' = "operating") =>
            (published /\ state = "OPERATING")
       /\ PublicationFailed' =>
            /\ state' # "OPERATING"
            /\ irq_pc' # "operating"
            /\ pc' \in {"DeviceShutdown", "ShutdownJoin", "done"}
            /\ irq_wakeup' => state' = "SHUTTING_DOWN"
            /\ (pc' = "done") =>
                 /\ res' = Last(step_res')
                 /\ irq_pc' = "exited"
                 /\ ~irq_thread_started_'
                 /\ state' = "SHUT_DOWN"]_vars

C15_Witness ==
    /\ PublicationFailed
    /\ pc = "done"
    /\ res = ERR_EXTERNAL
    /\ ~published
    /\ ~irq_thread_started_
    /\ ~irq_wakeup
    /\ irq_pc = "exited"

\* What SetupCommandBuffer has done to CORBRP, in order.
IsCorbRp(e) == e.reg = "corbrp"
CorbRpLog == SelectSeq(cb_log, IsCorbRp)

\* The four steps of a CORB read pointer reset.
RpSequence == <<WrBits("corbrp", {"RST"}), Poll("corbrp", {"RST"}),
                WrBits("corbrp", {}), Poll("corbrp", {})>>

\* SetupCommandBuffer has returned, with status r.
RingSetupReturned(r) == Len(step_res) >= 5 /\ step_res[5] = r

\* C17: ResetCORBRdPtrLocked writes the RST bit to CORBRP, polls until it
\* reads as set, writes zero, polls until the bit reads as cleared, in that
\* order; ring setup goes on past it only after both polls have seen their
\* acknowledgment; when the first poll times out the bit is not cleared and
\* ring setup returns ERR_TIMED_OUT.
C17_CorbRdPtrReset ==
    /\ \/ IsPrefix(CorbRpLog, RpSequence)
       \/ /\ Last(CorbRpLog).op = "timeout"
          /\ Len(CorbRpLog) \in {2, 4}
          /\ IsPrefix(SubSeq(CorbRpLog, 1, Len(CorbRpLog) - 1), RpSequence)
    /\ (pc = "RP_ClrRst") => corbrp = 1
    /\ (pc = "CB_ResetRirb") => corbrp = 0
    /\ (pc \in {"CB_ResetRirb", "CB_CorbSize", "CB_CorbSizeRet", "CB_RirbSize",
                "CB_RirbSizeRet", "CB_Masks", "CB_Base", "CB_Enable"}
        \/ "rirbwp" \in WrittenRegs(cb_log)
        \/ RingSetupReturned(NO_ERROR)) => CorbRpLog = RpSequence
    /\ (CorbRpLog # <<>> /\ Last(CorbRpLog).op = "timeout") =>
         /\ RingSetupReturned(ERR_TIMED_OUT)
         /\ Len(step_res) = 5
         /\ res = ERR_TIMED_OUT
         /\ Len(CorbRpLog) = 2 => (corbrp_wr = 1 /\ WrittenRegs(cb_log) =
                                                     {"corbctl", "rirbctl", "corbwp", "corbrp"})

C17_Witness ==
    /\ pc = "done"
    /\ CorbRpLog = <<WrBits("corbrp", {"RST"}), Timeout("corbrp", {"RST"})>>
    /\ corbrp_wr = 1
    /\ res = ERR_TIMED_OUT

\* The register writes of SetupCommandBuffer, in order.
IsWrite(e) == e.op = "REG_WR"
WriteLog == SelectSeq(cb_log, IsWrite)

\* A write that starts a ring's DMA engine or enables its interrupts.
IsEnable(e) == e.reg \in {"corbctl", "rirbctl"} /\ e.bits # {}

\* The registers written before the i-th write.
WrittenBefore(i) == {WriteLog[j].reg : j \in 1..(i - 1)}

\* The position of the (only) write to a register.
WriteIndex(reg) == CHOOSE i \in 1..Len(WriteLog) : WriteLog[i].reg = reg

\* C18: the first two register writes of SetupCommandBuffer write zero to
\* CORBCTL and RIRBCTL, before any pointer, size or base address register is
\* written; the writes that set the DMA and interrupt enable bits are the
\* last two, made after both sizes, all four base address registers and the
\* threshold are written and the status bits are cleared; when setup fails
\* after the stop no enabling write has been made.
C18_StopFirstEnableLast ==
    /\ WriteLog # <<>> =>
         /\ Len(WriteLog) >= 2
         /\ WriteLog[1] = WrBits("corbctl", {})
         /\ WriteLog[2] = WrBits("rirbctl", {})
    /\ \A i \in 1..Len(WriteLog) :
         IsEnable(WriteLog[i]) =>
           /\ i >= Len(WriteLog) - 1
           /\ {"corbwp", "corbrp", "rirbwp", "corbsize", "rirbsize", "corblbase",
               "corbubase", "rirblbase", "rirbubase", "rintcnt", "corbsts", "rirbsts"}
                \subseteq WrittenBefore(i)
           /\ WriteIndex("rirbsize") < WriteIndex("corblbase")
           /\ WriteIndex("rirbubase") < WriteIndex("rintcnt")
           /\ WriteIndex("rintcnt") < WriteIndex("corbsts")
           /\ WriteIndex("corbsts") < WriteIndex("rirbsts")
    /\ RingSetupReturned(NO_ERROR) =>
         /\ Len(WriteLog) = 17
         /\ WriteLog[16] = WrBits("corbctl", {"MEIE", "DMA_EN"})
         /\ WriteLog[17] = WrBits("rirbctl", {"INTCTL", "DMA_EN", "OIC"})
    /\ ~RingSetupReturned(NO_ERROR) => \A i \in 1..Len(WriteLog) : ~IsEnable(WriteLog[i])

C18_Witness ==
    /\ RingSetupReturned(ERR_BAD_STATE)
    /\ Len(WriteLog) = 7
    /\ WriteLog[1] = WrBits("corbctl", {})
    /\ WriteLog[2] = WrBits("rirbctl", {})
    /\ WriteLog[7].reg = "corbsize"

\* C19: the threshold written to RINTCNT is rirb_entry_count_ - 1 when that
\* is at most RIRB_RESERVED_RESPONSE_SLOTS and rirb_entry_count_ - 1 -
\* RIRB_RESERVED_RESPONSE_SLOTS otherwise; for each of the three ring sizes
\* it is at least 1 and less than rirb_entry_count_.
C19_ResponseThreshold ==
    "rintcnt" \in WrittenRegs(cb_log) =>
      LET thresh == Written(cb_log, "rintcnt")
      IN  /\ Cardinality(WritesTo("rintcnt")) = 1
          /\ rirb_entry_count_ \in {256, 16, 2}
          /\ thresh = IF rirb_entry_count_ - 1 <= RIRB_RESERVED_RESPONSE_SLOTS
                      THEN rirb_entry_count_ - 1
                      ELSE rirb_entry_count_ - 1 - RIRB_RESERVED_RESPONSE_SLOTS
          /\ thresh >= 1
          /\ thresh < rirb_entry_count_

C19_Witness ==
    /\ RingSetupReturned(NO_ERROR)
    /\ rirb_entry_count_ = 16
    /\ Written(cb_log, "rintcnt") = 7

\* The thread is inside SetupCommandBuffer.
InRingSetup(p) == p \in {"CB_Stop", "ResetCORBRdPtrLocked", "RP_WaitSet", "RP_ClrRst",
                         "RP_WaitClr", "CB_ResetRirb", "CB_CorbSize", "CB_CorbSizeRet",
                         "CB_RirbSize", "CB_RirbSizeRet", "CB_Masks", "CB_Base",
                         "CB_Enable"}

IsLockOp(e) == e.op \in {"lock", "unlock"}
LockLog == SelectSeq(cb_log, IsLockOp)

\* C20: SetupCommandBuffer takes corb_lock_ and then rirb_lock_ before
\* anything else and holds both until it returns; the ring cursor, the entry
\* counts, the masks and corb_max_in_flight_ change only while both are
\* held; on every return, with NO_ERROR or a failure, both locks are let go.
C20_RingLocks ==
    [][/\ InRingSetup(pc') =>
            /\ corb_lock_' = "SetupCommandBuffer"
            /\ rirb_lock_' = "SetupCommandBuffer"
            /\ LockLog' = <<Lock("corb_lock_"), Lock("rirb_lock_")>>
            /\ SubSeq(cb_log', 1, 2) = LockLog'
       /\ ~InRingSetup(pc') =>
            /\ corb_lock_' = "free"
            /\ rirb_lock_' = "free"
       /\ (ringVars' # ringVars) =>
            /\ corb_lock_ = "SetupCommandBuffer"
            /\ rirb_lock_ = "SetupCommandBuffer"
       /\ (Len(step_res') >= 5) =>
            /\ LockLog' = <<Lock("corb_lock_"), Lock("rirb_lock_"),
                            Unlock("rirb_lock_"), Unlock("corb_lock_")>>
            /\ SubSeq(cb_log', 1, 2) = SubSeq(LockLog', 1, 2)
            /\ SubSeq(cb_log', Len(cb_log') - 1, Len(cb_log')) = SubSeq(LockLog', 3, 4)]_vars

C20_Witness ==
    /\ RingSetupReturned(ERR_NOT_SUPPORTED)
    /\ corb_lock_ = "free"
    /\ rirb_lock_ = "free"
    /\ Len(cb_log) > 4
    /\ Last(cb_log) = Unlock("corb_lock_")

\* How often a descriptor occurs in a sequence of descriptors.
Occurrences(seq, stream) == Cardinality({k \in 1..Len(seq) : seq[k] = stream})

\* The descriptors the threads hold, and how often one is held at all.
Holdings(own, stream) ==
    LET ts == CHOOSE order \in [1..Cardinality(PoolThreads) -> PoolThreads] :
                 \A t \in PoolThreads : \E k \in DOMAIN order : order[k] = t
        held[k \in 0..Cardinality(PoolThreads)] ==
            IF k = 0 THEN 0 ELSE held[k - 1] + Occurrences(own[ts[k]], stream)
    IN  held[Cardinality(PoolThreads)]

\* The threads inside a pool operation.
InPool == {t \in PoolThreads : pool_pc[t] # "idle"}

\* C14: in every interleaving of Acquire and Release by the threads, each
\* descriptor setup created is either in the free pool once or held by one
\* thread once, never both; so the descriptors acquired without a release
\* are all different; an Acquire that finds no free descriptor of the type
\* asked for returns none and takes nothing; an Acquire that finds one
\* returns a free descriptor of that type; a released descriptor is in the
\* free pool again.  At most one thread is inside a pool operation.
C14_PoolExclusive ==
    [][/\ \A i \in Created' :
            Occurrences(free_streams_', all_streams_'[i]) + Holdings(owned', all_streams_'[i]) = 1
       /\ Len(free_streams_') + Len(owned'["t1"]) + Len(owned'["t2"]) = Cardinality(Created')
       /\ Cardinality(InPool') <= 1
       /\ \A t \in PoolThreads :
            /\ (pool_pc[t] = "pick" /\ pool_pc'[t] = "take") =>
                 IF MatchingFree(free_streams_, pool_req[t]) = {}
                 THEN pool_pick'[t] = NoStream
                 ELSE /\ Occurrences(free_streams_, pool_pick'[t]) = 1
                      /\ Matches(pool_pick'[t], pool_req[t])
            /\ (pool_pc[t] = "take" /\ pool_pc'[t] = "idle") =>
                 IF pool_pick[t] = NoStream
                 THEN UNCHANGED <<free_streams_, owned>>
                 ELSE /\ Occurrences(free_streams_', pool_pick[t]) = 0
                      /\ Occurrences(owned'[t], pool_pick[t]) = 1
                      /\ Len(owned'[t]) = Len(owned[t]) + 1
            /\ (pool_pc[t] = "put" /\ pool_pc'[t] = "idle") =>
                 /\ Occurrences(free_streams_', pool_pick[t]) = 1
                 /\ Occurrences(owned'[t], pool_pick[t]) = 0]_vars

C14_Witness ==
    /\ stream_cnt = <<0, 0, 3>>
    /\ free_streams_ = <<all_streams_[1]>>
    /\ Len(owned["t1"]) = 1
    /\ Len(owned["t2"]) = 1
    /\ owned["t1"][1] = all_streams_[2]
    /\ owned["t2"][1] = all_streams_[0]
    /\ pool_pc = [t \in PoolThreads |-> "idle"]

\* C16: with the corb_max_in_flight_ ring setup computed, for each of the
\* nine pairs of ring sizes, as long as no more than corb_max_in_flight_
\* commands are outstanding and the consumer moves rirb_rd_ptr_ on by one
\* modulo rirb_entry_count_ per response, the responses not drained yet never
\* outnumber the slots of the response ring, and the hardware's write
\* pointer is that many slots ahead of the read cursor.
C16_NoResponseOverflow ==
    /\ corb_in_flight <= corb_max_in_flight_
    /\ rirb_pending <= corb_in_flight
    /\ rirb_entry_count_ > 0 =>
         /\ rirb_pending <= rirb_entry_count_
         /\ rirb_rd_ptr_ < rirb_entry_count_
         /\ rirb_rd_ptr_ = rirb_drained % rirb_entry_count_
         /\ rirb_wp = (rirb_rd_ptr_ + rirb_pending) % rirb_entry_count_

C16_Witness ==
    /\ corb_entry_count_ = 256
    /\ rirb_entry_count_ = 16
    /\ corb_max_in_flight_ = 7
    /\ corb_in_flight = 7
    /\ rirb_pending = 7
    /\ rirb_drained = 17
    /\ rirb_rd_ptr_ = 1
    /\ rirb_wp = 8

\* The current Init call was refused by SetupPCIDevice because the
\* controller is already initialized, and has not returned yet.
RejectedInitRunning ==
    /\ pc \notin {"idle", "done"}
    /\ step_res = <<ERR_BAD_STATE>>

\* C21: an Init call that is refused with ERR_BAD_STATE leaves a controller
\* that was OPERATING as it is: until the call returns the state stays
\* OPERATING and the IRQ thread stays started and does not exit.
C21_RejectedInitLeavesController ==
    [][(RejectedInitRunning /\ state = "OPERATING") =>
         /\ state' = "OPERATING"
         /\ irq_thread_started_' = irq_thread_started_
         /\ irq_pc' # "exited"]_vars
====
